---- MODULE Spec2Model ----
(***************************************************************************)
(* Complect compiler front end: Preprocessor (lexer), Tokenizer and        *)
(* ASTBuilder (parser), modelled as state machines.                        *)
(***************************************************************************)
EXTENDS Integers, Sequences, FiniteSets, TLC

(***************************************************************************)
(* Bounds of the model.                                                    *)
(***************************************************************************)
\* longest source text, in characters
MaxLen == 3
\* most cuts made in a source text (MaxCuts + 1 chunks)
MaxCuts == 1

\* the characters source texts are made of: one or two of each class
Alphabet == {"a", "s", "1", " ", "\n", "'", "\"", "=", "-", "#", "$"}

(***************************************************************************)
(* Character classes of the Preprocessor.                                  *)
(***************************************************************************)
Letters ==
  {"a","b","c","d","e","f","g","h","i","j","k","l","m","n","o","p","q","r",
   "s","t","u","v","w","x","y","z","A","B","C","D","E","F","G","H","I","J",
   "K","L","M","N","O","P","Q","R","S","T","U","V","W","X","Y","Z"}

Digits == {"0","1","2","3","4","5","6","7","8","9"}

\* the ranges '!'..'&', '('..'/', ':'..'@', '['..backquote, '{'..'~'; the
\* backquote itself is left out, the parser of TLA+ strings does not accept it
Punctuation ==
  {"!","\"","#","$","%","&","(",")","*","+",",","-",".","/",":",";","<","=",
   ">","?","@","[","\\","]","^","_","{","|","}","~"}

isWhitespace(c) == c \in {" ", "\t"}

isDigit(c) == c \in Digits

isStringAllowable(c) == c \in Punctuation /\ c # "\"" /\ c # "'"

isLetter(c) == c \in Letters

isLineFeed(c) == c = "\n"

isQuote(c) == c \in {"\"", "'"}

isOperator(c) == c \in {"+", "-", "*", "/", "=", "<", ">", "%"}

(***************************************************************************)
(* Preprocessing tokens.                                                   *)
(***************************************************************************)
\* new PreprocessingToken(): type none, empty value, line 0, column 0
NewToken == [type |-> "none", value |-> <<>>, line |-> 0, column |-> 0]

\* the token with its position set to the lexer's current line and column
At(tok, ln, col) == [tok EXCEPT !.line = ln, !.column = col]

\* PreprocessingToken.append
Append1(tok, ch) == [tok EXCEPT !.value = @ \o <<ch>>]

\* finalizeCurrentToken yielding nothing for a string, as it does for a comment
finalizeCurrentToken_DropString(st, tok) ==
  CASE st = "whitespace" -> <<[tok EXCEPT !.type = "whitespace"]>>
    [] st = "operator"   -> <<[tok EXCEPT !.type = "operator"]>>
    [] st \in {"comment", "string"} -> <<>>
    [] OTHER             -> <<tok>>

\* #finalizeCurrentToken: the token to yield, as a sequence of zero or one
finalizeCurrentToken(st, tok) ==
  CASE st = "whitespace" -> <<[tok EXCEPT !.type = "whitespace"]>>
    [] st = "string"     -> <<[tok EXCEPT !.type = "string"]>>
    [] st = "operator"   -> <<[tok EXCEPT !.type = "operator"]>>
    [] st = "comment"    -> <<>>
    [] OTHER             -> <<tok>>

\* the lexer's fields
LexerInit == [state |-> "initial", cur |-> NewToken, line |-> 1, column |-> 1]

\* the result of one iteration of the character loop: the lexer's fields
\* after it, the tokens yielded, and whether the character is consumed
\* (FALSE: it is examined again, the i-- of the code)
Result(L, emit, consumed) == [L |-> L, emit |-> emit, consumed |-> consumed]

\* the character examined again without the state set back to initial
EndToken_NoReset(L) == Result(L, <<>>, FALSE)

\* a state's case when the token ends: finalize, reset, back to initial,
\* the character is examined again and the column is not incremented
EndToken(L) ==
  Result([L EXCEPT !.state = "initial", !.cur = NewToken],
         finalizeCurrentToken(L.state, L.cur), FALSE)

\* a case that ends in break: the column is incremented, the character consumed
Consume(L, emit) == Result([L EXCEPT !.column = @ + 1], emit, TRUE)

\* case PreprocessingState.initial; nextIsDigit is
\* i + 1 < current.length && isDigit(current[i + 1])
StepInitial(L, ch, nextIsDigit) ==
  LET started == At(L.cur, L.line, L.column) IN
  IF isWhitespace(ch) THEN
    Consume([L EXCEPT !.cur = started, !.state = "whitespace"], <<>>)
  ELSE IF isDigit(ch) THEN
    Consume([L EXCEPT !.cur = Append1([started EXCEPT !.type = "number"], ch),
                      !.state = "number"], <<>>)
  ELSE IF ch = "-" /\ nextIsDigit THEN
    Consume([L EXCEPT !.cur = Append1([started EXCEPT !.type = "number"], ch),
                      !.state = "number"], <<>>)
  ELSE IF isLineFeed(ch) THEN
    Result([L EXCEPT !.cur = NewToken, !.line = @ + 1, !.column = 1],
           <<[started EXCEPT !.type = "linefeed"]>>, TRUE)
  ELSE IF isLetter(ch) THEN
    Consume([L EXCEPT !.cur = Append1([started EXCEPT !.type = "identifier"], ch),
                      !.state = "identifier"], <<>>)
  ELSE IF isOperator(ch) THEN
    Consume([L EXCEPT !.cur = Append1(started, ch), !.state = "operator"], <<>>)
  ELSE IF isQuote(ch) THEN
    Consume([L EXCEPT !.cur = Append1(started, ch), !.state = "string"], <<>>)
  ELSE IF ch = "#" THEN
    Consume([L EXCEPT !.cur = Append1(started, ch), !.state = "comment"], <<>>)
  ELSE
    Consume([L EXCEPT !.cur = NewToken],
            <<Append1([started EXCEPT !.type = "unknown"], ch)>>)

\* the operator state ending its token at every character
StepOperator_NoMunch(L, ch) == EndToken(L)

\* case PreprocessingState.operator
StepOperator(L, ch) ==
  IF isOperator(ch) THEN Consume([L EXCEPT !.cur = Append1(@, ch)], <<>>)
  ELSE EndToken(L)

\* case PreprocessingState.string
StepString(L, ch) ==
  IF isLetter(ch) \/ isDigit(ch) \/ isWhitespace(ch) \/ isStringAllowable(ch) THEN
    Consume([L EXCEPT !.cur = Append1(@, ch)], <<>>)
  ELSE IF isQuote(ch) THEN
    Consume([L EXCEPT !.cur = NewToken, !.state = "initial"],
            <<[Append1(L.cur, ch) EXCEPT !.type = "string"]>>)
  ELSE Consume(L, <<>>)

\* case PreprocessingState.whitespace
StepWhitespace(L, ch) ==
  IF isWhitespace(ch) THEN Consume(L, <<>>) ELSE EndToken(L)

\* case PreprocessingState.identifier
StepIdentifier(L, ch) ==
  IF isLetter(ch) \/ isDigit(ch) THEN Consume([L EXCEPT !.cur = Append1(@, ch)], <<>>)
  ELSE EndToken(L)

\* the number state going on over a - as well
StepNumber_TakesMinus(L, ch) ==
  IF isDigit(ch) \/ ch = "-" THEN Consume([L EXCEPT !.cur = Append1(@, ch)], <<>>)
  ELSE EndToken(L)

\* case PreprocessingState.number
StepNumber(L, ch) ==
  IF isDigit(ch) THEN Consume([L EXCEPT !.cur = Append1(@, ch)], <<>>)
  ELSE EndToken(L)

\* the comment state ending at a linefeed without counting the line
StepComment_KeepLine(L, ch) ==
  IF isLineFeed(ch) THEN
    Result([L EXCEPT !.cur = NewToken, !.state = "initial"], <<>>, TRUE)
  ELSE Consume(L, <<>>)

\* case PreprocessingState.comment
StepComment(L, ch) ==
  IF isLineFeed(ch) THEN
    Result([L EXCEPT !.cur = NewToken, !.state = "initial",
                     !.line = @ + 1, !.column = 1], <<>>, TRUE)
  ELSE Consume(L, <<>>)

\* one iteration of while (i < current.length): the switch on the state
LexStep(L, ch, nextIsDigit) ==
  CASE L.state = "initial"    -> StepInitial(L, ch, nextIsDigit)
    [] L.state = "operator"   -> StepOperator(L, ch)
    [] L.state = "string"     -> StepString(L, ch)
    [] L.state = "whitespace" -> StepWhitespace(L, ch)
    [] L.state = "identifier" -> StepIdentifier(L, ch)
    [] L.state = "number"     -> StepNumber(L, ch)
    [] L.state = "comment"    -> StepComment(L, ch)

\* the eof token yielded without its line and column set
LexEnd_EofUnplaced(L) ==
  (IF L.state # "initial" THEN finalizeCurrentToken(L.state, L.cur) ELSE <<>>)
    \o <<[type |-> "eof", value |-> <<>>, line |-> 0, column |-> 0]>>

\* the code after the chunk loop: the pending token, then the eof token
LexEnd(L) ==
  (IF L.state # "initial" THEN finalizeCurrentToken(L.state, L.cur) ELSE <<>>)
    \o <<[type |-> "eof", value |-> <<>>, line |-> L.line, column |-> L.column]>>

(***************************************************************************)
(* Source texts and the ways of cutting them into chunks.                  *)
(***************************************************************************)
\* the chunks of text t from position from on, cut after each position in cuts
RECURSIVE Split(_, _, _)
Split(t, cuts, from) ==
  IF \E c \in cuts : c >= from
    THEN LET c == CHOOSE c \in cuts : c >= from /\ \A d \in cuts : d >= from => c <= d
         IN <<SubSeq(t, from, c)>> \o Split(t, cuts, c + 1)
    ELSE <<SubSeq(t, from, Len(t))>>

\* the sets of at most MaxCuts positions a text of n characters is cut after
CutSets(n) == {c \in SUBSET (1..(n - 1)) : Cardinality(c) <= MaxCuts}

RECURSIVE Flatten(_)
Flatten(cs) == IF cs = <<>> THEN <<>> ELSE Head(cs) \o Flatten(Tail(cs))

(***************************************************************************)
(* Keywords, operators and conversions of the Tokenizer.                   *)
(***************************************************************************)
\* keywords.js: the text of each keyword, as its sequence of characters
KeywordText ==
  [bool |-> <<"b","o","o","l">>,
   true |-> <<"t","r","u","e">>,
   false |-> <<"f","a","l","s","e">>,
   make |-> <<"m","a","k","e">>,
   assign |-> <<"a","s","s","i","g","n">>,
   if |-> <<"i","f">>,
   endif |-> <<"e","n","d","i","f">>,
   as |-> <<"a","s">>,
   repeat |-> <<"r","e","p","e","a","t">>,
   print |-> <<"p","r","i","n","t">>,
   free |-> <<"f","r","e","e">>,
   func |-> <<"f","u","n","c">>,
   return |-> <<"r","e","t","u","r","n">>,
   call |-> <<"c","a","l","l">>,
   into |-> <<"i","n","t","o">>,
   end |-> <<"e","n","d">>,
   sdlInit |-> <<"s","d","l","I","n","i","t">>,
   sdlWindow |-> <<"s","d","l","W","i","n","d","o","w">>,
   sdlRenderer |-> <<"s","d","l","R","e","n","d","e","r","e","r">>,
   sdlDelay |-> <<"s","d","l","D","e","l","a","y">>,
   sdlEvents |-> <<"s","d","l","E","v","e","n","t","s">>,
   sdlGetPixel |-> <<"s","d","l","G","e","t","P","i","x","e","l">>,
   sdlPutPixel |-> <<"s","d","l","P","u","t","P","i","x","e","l">>,
   sdlPresent |-> <<"s","d","l","P","r","e","s","e","n","t">>,
   sdlClear |-> <<"s","d","l","C","l","e","a","r">>,
   sdlSetColor |-> <<"s","d","l","S","e","t","C","o","l","o","r">>,
   sdlDrawLine |-> <<"s","d","l","D","r","a","w","L","i","n","e">>,
   sin |-> <<"s","i","n">>,
   cos |-> <<"c","o","s">>,
   rnd |-> <<"r","n","d">>]

keywords == {KeywordText[k] : k \in DOMAIN KeywordText}

\* operators.js
operators == {<<"+">>, <<"-">>, <<"*">>, <<"/">>, <<"=">>, <<"<">>, <<">">>, <<"%">>, <<"=","=">>, <<"!","=">>, <<"<","=">>, <<">","=">>}

DigitValue(c) ==
  CASE c = "0" -> 0 [] c = "1" -> 1 [] c = "2" -> 2 [] c = "3" -> 3 [] c = "4" -> 4
    [] c = "5" -> 5 [] c = "6" -> 6 [] c = "7" -> 7 [] c = "8" -> 8 [] c = "9" -> 9

RECURSIVE Decimal(_)
Decimal(ds) ==
  IF ds = <<>> THEN 0
  ELSE 10 * Decimal(SubSeq(ds, 1, Len(ds) - 1)) + DigitValue(ds[Len(ds)])

AllDigits(ds) == \A k \in 1..Len(ds) : isDigit(ds[k])

\* Number(text) for the texts made of digits and signs: the empty text is 0,
\* digits with an optional sign are a decimal number, anything else is NaN
ToNumber(v) ==
  IF v = <<>> THEN [nan |-> FALSE, n |-> 0]
  ELSE IF AllDigits(v) THEN [nan |-> FALSE, n |-> Decimal(v)]
  ELSE IF Len(v) >= 2 /\ v[1] = "-" /\ AllDigits(Tail(v)) THEN [nan |-> FALSE, n |-> 0 - Decimal(Tail(v))]
  ELSE IF Len(v) >= 2 /\ v[1] = "+" /\ AllDigits(Tail(v)) THEN [nan |-> FALSE, n |-> Decimal(Tail(v))]
  ELSE [nan |-> TRUE, n |-> 0]

NotQuote(c) == c # "'" /\ c # "\""

\* value.replaceAll("'", '').replaceAll('"', '')
StripQuotes(v) == SelectSeq(v, NotQuote)

\* new Token(type, value, line, column)
Token(type, value, line, column) ==
  [type |-> type, value |-> value, line |-> line, column |-> column]

NoError == [name |-> "none"]

\* new TokenizerError(`${what}: ${value} at line ${line}, column ${column}`)
TokenizerError(what, p) ==
  [name |-> "TokenizerError", message |-> what, value |-> p.value,
   line |-> p.line, column |-> p.column]

\* the Tokenizer yielding every operator token without looking it up
TokenizerStep_NoOperatorCheck(p) ==
  CASE p.type = "identifier" ->
         [emit |-> <<Token(IF p.value \in keywords THEN "keyword" ELSE "identifier",
                           p.value, p.line, p.column)>>,
          error |-> NoError]
    [] p.type = "operator" ->
         [emit |-> <<Token("operator", p.value, p.line, p.column)>>, error |-> NoError]
    [] p.type = "number" ->
         IF ToNumber(p.value).nan
           THEN [emit |-> <<>>, error |-> TokenizerError("Invalid number", p)]
           ELSE [emit |-> <<Token("number", ToNumber(p.value).n, p.line, p.column)>>,
                 error |-> NoError]
    [] p.type = "string" ->
         [emit |-> <<Token("string", StripQuotes(p.value), p.line, p.column)>>,
          error |-> NoError]
    [] OTHER -> [emit |-> <<>>, error |-> NoError]

\* the Tokenizer yielding every identifier as an identifier, keyword or not
TokenizerStep_NoKeywords(p) ==
  CASE p.type = "identifier" ->
         [emit |-> <<Token("identifier", p.value, p.line, p.column)>>, error |-> NoError]
    [] p.type = "operator" ->
         IF p.value \notin operators
           THEN [emit |-> <<>>, error |-> TokenizerError("Invalid operator", p)]
           ELSE [emit |-> <<Token("operator", p.value, p.line, p.column)>>, error |-> NoError]
    [] p.type = "number" ->
         IF ToNumber(p.value).nan
           THEN [emit |-> <<>>, error |-> TokenizerError("Invalid number", p)]
           ELSE [emit |-> <<Token("number", ToNumber(p.value).n, p.line, p.column)>>,
                 error |-> NoError]
    [] p.type = "string" ->
         [emit |-> <<Token("string", StripQuotes(p.value), p.line, p.column)>>,
          error |-> NoError]
    [] OTHER -> [emit |-> <<>>, error |-> NoError]

\* the body of the for-await loop of Tokenizer.process for one preprocessing
\* token: the tokens yielded and the error thrown
TokenizerStep(p) ==
  CASE p.type = "identifier" ->
         [emit |-> <<Token(IF p.value \in keywords THEN "keyword" ELSE "identifier",
                           p.value, p.line, p.column)>>,
          error |-> NoError]
    [] p.type = "operator" ->
         IF p.value \notin operators
           THEN [emit |-> <<>>, error |-> TokenizerError("Invalid operator", p)]
           ELSE [emit |-> <<Token("operator", p.value, p.line, p.column)>>, error |-> NoError]
    [] p.type = "number" ->
         IF ToNumber(p.value).nan
           THEN [emit |-> <<>>, error |-> TokenizerError("Invalid number", p)]
           ELSE [emit |-> <<Token("number", ToNumber(p.value).n, p.line, p.column)>>,
                 error |-> NoError]
    [] p.type = "string" ->
         [emit |-> <<Token("string", StripQuotes(p.value), p.line, p.column)>>,
          error |-> NoError]
    [] OTHER -> [emit |-> <<>>, error |-> NoError]

(***************************************************************************)
(* State.                                                                  *)
(***************************************************************************)
VARIABLES
  chunks,      \* the chunk iterable handed to Preprocessor.process
  ci,          \* the chunk the for-await loop is at (0: none yet)
  i,           \* the index of the character loop in the current chunk, from 1
  lex,         \* the Preprocessor's fields: state, currentToken, line, column
  out,         \* the preprocessing tokens yielded so far
  consumedIn,  \* history: for each character consumed, the state it was read in
  curStart,    \* history: the position in the text where currentToken started
  starts,      \* history: for each token of out, the position where it started
  tpos,        \* how many preprocessing tokens the Tokenizer has taken
  tokens,      \* the tokens yielded by the Tokenizer (ASTBuilder's allTokens)
  error,       \* the error thrown, NoError while there is none
  parsing,     \* whether the tokens are handed to ASTBuilder.build
  index,       \* ASTBuilder.index, from 0
  stack,       \* the activations of ASTBuilder's parse methods, innermost last
  program,     \* ASTBuilder.program
  phase,       \* which stage runs: "lex", "tokenize", "parse", "done", "error",
               \* and of LLVMTranslator.translate "collect", "lower", "lowered"
  ir,          \* the statements of the Program handed to LLVMTranslator.translate
  visit,       \* the statements collectFunctionSignatures has still to visit
  functionSignatures, \* LLVMTranslator.functionSignatures: name -> array of types
  variables,   \* LLVMTranslator.variables: name -> { type, value }
  scopes,      \* savedVariables of the translateFunctionDeclaration calls at work
  work,        \* the statements translateStatement has still to be called on
  functions,   \* the functions created in the module so far
  emitted,     \* the instructions the builder has created, in creation order
  blocks,      \* the basic blocks created so far: for each, its function
  blockOf,     \* for each instruction of emitted, the block it was inserted in
  insertBlock, \* builder.GetInsertBlock(), 0 before SetInsertPoint
  function,    \* LLVMTranslator.function, "" before main is created
  saved,       \* stmt, savedInsertPoint and savedFunction of the declarations at work
  printed      \* what translate returned, NoText while it has not returned

lexvars == <<chunks, ci, i, lex, out, consumedIn, curStart, starts>>

tokvars == <<tpos, tokens>>

parsevars == <<index, stack, program>>

buildvars == <<blocks, blockOf, insertBlock, function, saved, printed>>

lowervars == <<ir, visit, functionSignatures, variables, scopes, work, functions,
               emitted, buildvars>>

vars == <<chunks, ci, i, lex, out, consumedIn, curStart, starts, tpos, tokens,
          error, parsing, index, stack, program, phase, ir, visit,
          functionSignatures, variables, scopes, work, functions, emitted,
          blocks, blockOf, insertBlock, function, saved, printed>>

\* the source text
text == Flatten(chunks)

\* const current = this.#decoder.write(chunk)
current == IF ci = 0 THEN <<>> ELSE chunks[ci]

\* the position in the text of the character the lexer is at
pos == Len(consumedIn) + 1

NoProgram == [type |-> "none"]

\* the names programs use for variables and parameters, and for functions
VarNames == {"x", "y", "p"}

FuncNames == {"f", "g"}

\* declareRuntimeFunctions: the functions the module holds before main
RuntimeFunctions ==
  {"printf", "malloc", "free", "strcpy", "strcat", "strcmp", "sprintf",
   "strlen", "SDL_Init", "SDL_CreateWindow", "SDL_Quit", "SDL_Delay",
   "SDL_PollEvent", "exit", "SDL_CreateRenderer", "SDL_SetRenderDrawColor",
   "SDL_RenderDrawPoint", "SDL_RenderPresent", "SDL_RenderClear",
   "SDL_RenderDrawLine", "sin", "cos"}

\* the names a call statement can hold
CalleeNames == FuncNames \cup {"exit"}

\* translate has not returned
NoText == [type |-> "none"]

\* this.variables.get(name) of a name the map does not hold
NoVar == [type |-> "none"]

\* new LLVMTranslator(): empty maps, no module, nothing handed to translate
Untranslated ==
  /\ ir = <<>>
  /\ visit = <<>>
  /\ functionSignatures = [f \in CalleeNames |-> <<>>]
  /\ variables = [n \in VarNames |-> NoVar]
  /\ scopes = <<>>
  /\ work = <<>>
  /\ functions = {}
  /\ emitted = <<>>
  /\ blocks = <<>>
  /\ blockOf = <<>>
  /\ insertBlock = 0
  /\ function = ""
  /\ saved = <<>>
  /\ printed = NoText

\* the state after construction, the chunk iterable and the driver apart
Constructed ==
  /\ ci = 0
  /\ i = 1
  /\ lex = LexerInit
  /\ out = <<>>
  /\ consumedIn = <<>>
  /\ curStart = 0
  /\ starts = <<>>
  /\ tpos = 0
  /\ tokens = <<>>
  /\ error = NoError
  /\ index = 0
  /\ stack = <<>>
  /\ program = NoProgram
  /\ phase = "lex"
  /\ Untranslated

\* the Preprocessor and the Tokenizer on every text of at most MaxLen
\* characters of Alphabet, cut into at most MaxCuts + 1 chunks
FrontInit ==
  /\ \E n \in 0..MaxLen : \E t \in [1..n -> Alphabet] : \E cuts \in CutSets(n) :
       chunks = Split(t, cuts, 1)
  /\ parsing = FALSE
  /\ Constructed

(***************************************************************************)
(* Preprocessor.process                                                    *)
(***************************************************************************)
\* for await (const chunk of chunkIterable): the next chunk, i = 0
NextChunk ==
  /\ phase = "lex"
  /\ i > Len(current)
  /\ ci < Len(chunks)
  /\ ci' = ci + 1
  /\ i' = 1
  /\ UNCHANGED <<chunks, lex, out, consumedIn, curStart, starts, phase>>
  /\ UNCHANGED <<tokvars, parsevars, error, parsing, lowervars>>

\* one iteration of while (i < current.length)
LexChar ==
  /\ phase = "lex"
  /\ i <= Len(current)
  /\ LET ch == current[i]
         nextIsDigit == i + 1 <= Len(current) /\ isDigit(current[i + 1])
         r == LexStep(lex, ch, nextIsDigit)
         began == lex.state = "initial" /\ r.consumed
     IN /\ lex' = r.L
        /\ out' = out \o r.emit
        /\ starts' = starts \o [k \in 1..Len(r.emit) |-> IF began THEN pos ELSE curStart]
        /\ curStart' = IF began THEN pos ELSE curStart
        /\ consumedIn' = IF r.consumed THEN Append(consumedIn, lex.state) ELSE consumedIn
        /\ i' = IF r.consumed THEN i + 1 ELSE i
  /\ UNCHANGED <<chunks, ci, phase>>
  /\ UNCHANGED <<tokvars, parsevars, error, parsing, lowervars>>

\* the chunk iterable is exhausted: the pending token and the eof token
EndOfInput ==
  /\ phase = "lex"
  /\ i > Len(current)
  /\ ci = Len(chunks)
  /\ LET emit == LexEnd(lex)
     IN /\ out' = out \o emit
        /\ starts' = starts \o [k \in 1..Len(emit) |-> IF k < Len(emit) THEN curStart ELSE pos]
  /\ lex' = [lex EXCEPT !.cur = NewToken]
  /\ phase' = "tokenize"
  /\ UNCHANGED <<chunks, ci, i, consumedIn, curStart>>
  /\ UNCHANGED <<tokvars, parsevars, error, parsing, lowervars>>

(***************************************************************************)
(* Tokenizer.process                                                       *)
(***************************************************************************)
\* one iteration of for await (const preprocessingToken of preprocessorGen)
Tokenize ==
  /\ phase = "tokenize"
  /\ tpos < Len(out)
  /\ LET r == TokenizerStep(out[tpos + 1])
     IN /\ tokens' = tokens \o r.emit
        /\ error' = r.error
        /\ phase' = IF r.error = NoError THEN "tokenize" ELSE "error"
  /\ tpos' = tpos + 1
  /\ UNCHANGED <<lexvars, parsevars, parsing, lowervars>>

\* the preprocessor's generator is done: the Tokenizer's generator ends, and
\* ASTBuilder.build, having all the tokens, calls parse(): parseBlock(null)
TokenizerDone ==
  /\ phase = "tokenize"
  /\ tpos = Len(out)
  /\ IF parsing
       THEN /\ phase' = "parse"
            /\ index' = 0
            /\ stack' = <<[fn |-> "parseBlock", kind |-> "", todo |-> <<>>, pc |-> "loop",
                           acc |-> <<>>, list |-> <<>>, op |-> <<>>]>>
       ELSE /\ phase' = "done"
            /\ UNCHANGED <<index, stack>>
  /\ UNCHANGED <<lexvars, tokvars, error, parsing, lowervars, program>>

(***************************************************************************)
(* ASTBuilder: the parse methods as activations on a stack.                *)
(***************************************************************************)
\* an activation: fn is the method, kind the block's end keyword or the
\* statement's keyword, todo what the statement still has to parse, pc the
\* place in a method with a loop, acc the values parsed so far, list the
\* params or args collected by a loop, op the operator token's value
Frame(fn, kind, todo, pc) ==
  [fn |-> fn, kind |-> kind, todo |-> todo, pc |-> pc, acc |-> <<>>, list |-> <<>>, op |-> <<>>]

\* what parseStatement parses after each leading keyword, in order
StatementParts ==
  [make |-> <<"identifier", "expr">>,
   assign |-> <<"identifier", "expr">>,
   print |-> <<"expr">>,
   free |-> <<"identifier">>,
   if |-> <<"expr", "block">>,
   as |-> <<"expr", "block">>,
   func |-> <<"identifier", "params", "block">>,
   return |-> <<"identifier">>,
   call |-> <<"identifier", "args", "into">>,
   sdlInit |-> <<>>,
   sdlWindow |-> <<"expr", "expr", "string">>,
   sdlDelay |-> <<"expr">>,
   sdlEvents |-> <<>>,
   sdlRenderer |-> <<>>,
   sdlPutPixel |-> <<"expr", "expr", "expr", "expr", "expr">>,
   sdlPresent |-> <<>>,
   sdlClear |-> <<>>,
   sdlSetColor |-> <<"expr", "expr", "expr">>,
   sdlDrawLine |-> <<"expr", "expr", "expr", "expr">>]

\* the keyword that ends the block of if, as and func
BlockEnd == [if |-> "endif", as |-> "repeat", func |-> "end"]

\* the IR node class built for each statement and builtin
NodeType ==
  [make |-> "VariableDeclaration", assign |-> "AssignmentExpression",
   assignment |-> "AssignmentExpression", print |-> "PrintStatement",
   free |-> "FreeStatement", if |-> "IfStatement", as |-> "WhileStatement",
   func |-> "FunctionDeclaration", return |-> "ReturnStatement",
   call |-> "CallStatement", sdlInit |-> "SDLInitStatement",
   sdlWindow |-> "SDLWindowStatement", sdlDelay |-> "SDLDelayStatement",
   sdlEvents |-> "SDLHandleEventsStatement", sdlRenderer |-> "SDLCreateRendererStatement",
   sdlPutPixel |-> "SDLPutPixelStatement", sdlPresent |-> "SDLPresentStatement",
   sdlClear |-> "SDLClearStatement", sdlSetColor |-> "SDLSetColorStatement",
   sdlDrawLine |-> "SDLDrawLineStatement", sin |-> "SinExpression", cos |-> "CosExpression"]

\* the additive and the multiplicative operators in each other's loop
LevelOps_Swapped ==
  [parseComparison |-> {<<"=","=">>, <<"!","=">>, <<"<">>, <<">">>, <<"<","=">>, <<">","=">>},
   parseAdditive |-> {<<"*">>, <<"/">>, <<"%">>},
   parseMultiplicative |-> {<<"+">>, <<"-">>}]

\* the operators of each binary level and the method parsing its operands
LevelOps ==
  [parseComparison |-> {<<"=","=">>, <<"!","=">>, <<"<">>, <<">">>, <<"<","=">>, <<">","=">>},
   parseAdditive |-> {<<"+">>, <<"-">>},
   parseMultiplicative |-> {<<"*">>, <<"/">>, <<"%">>}]

Operand ==
  [parseComparison |-> "parseAdditive", parseAdditive |-> "parseMultiplicative",
   parseMultiplicative |-> "parseUnary"]

BinaryLevels == DOMAIN LevelOps

\* this.tokens[k]
Tok(k) == tokens[k + 1]

\* this.index < this.tokens.length
HasTok == index < Len(tokens)

IsKeyword(t, name) == t.type = "keyword" /\ t.value = KeywordText[name]

\* the name of the keyword a keyword token holds
KeywordOf(t) == CHOOSE k \in DOMAIN KeywordText : KeywordText[k] = t.value

canStartExpression(t) ==
  \/ t.type \in {"identifier", "number", "string"}
  \/ IsKeyword(t, "sin") \/ IsKeyword(t, "cos")
  \/ (t.type = "operator" /\ t.value = <<"-">>)

ASTError(message, what) == [name |-> "ASTError", message |-> message, what |-> what]

\* reading a property of undefined, the token past the end
TypeError == [name |-> "TypeError", message |-> "Cannot read properties of undefined", what |-> ""]

Top == stack[Len(stack)]

\* the callee's value arrives in the caller's activation
Deliver(f, v) ==
  IF f.fn \in BinaryLevels THEN
    IF f.pc = "first" THEN [f EXCEPT !.acc = <<v>>, !.pc = "loop"]
    ELSE [f EXCEPT !.pc = "loop",
            !.acc = <<[type |-> "BinaryExpression", left |-> f.acc[1],
                       operator |-> f.op, right |-> v]>>]
  ELSE IF f.fn = "parseUnary" THEN
    [f EXCEPT !.acc = <<[type |-> "UnaryMinusExpression", argument |-> v]>>, !.pc = "return"]
  ELSE IF f.todo # <<>> /\ Head(f.todo) = "args" THEN [f EXCEPT !.list = Append(@, v)]
  ELSE [f EXCEPT !.acc = Append(@, v)]

\* return v: the activation ends; parse() wraps the outermost block's
\* statements in the Program
Return(v) ==
  IF Len(stack) = 1
    THEN /\ program' = [type |-> "Program", statements |-> v]
         /\ stack' = <<>>
         /\ phase' = "done"
    ELSE /\ stack' = SubSeq(stack, 1, Len(stack) - 2) \o <<Deliver(stack[Len(stack) - 1], v)>>
         /\ UNCHANGED <<program, phase>>

\* the activation goes on as f and calls the method fn
Call(f, callee) == stack' = SubSeq(stack, 1, Len(stack) - 1) \o <<f, callee>>

Throw(e) ==
  /\ error' = e
  /\ phase' = "error"
  /\ stack' = <<>>
  /\ UNCHANGED program

\* one iteration of the loop of parseBlock, the call of parseStatement with
\* its first token and dispatch included
ParseBlock ==
  /\ phase = "parse"
  /\ Top.fn = "parseBlock"
  /\ IF HasTok THEN
       LET token == Tok(index) IN
       /\ index' = index + 1
       /\ IF Top.kind # "" /\ IsKeyword(token, Top.kind) THEN
            Return(Top.acc) /\ UNCHANGED error
          ELSE IF token.type = "keyword" THEN
            IF KeywordOf(token) \in DOMAIN StatementParts THEN
              /\ Call(Top, Frame("parseStatement", KeywordOf(token),
                                 StatementParts[KeywordOf(token)], ""))
              /\ UNCHANGED <<program, phase, error>>
            ELSE Throw(ASTError("Unexpected keyword", KeywordOf(token)))
          ELSE IF token.type = "identifier" THEN
            /\ Call(Top, [Frame("parseStatement", "assignment", <<"=", "expr">>, "")
                            EXCEPT !.acc = <<token.value>>])
            /\ UNCHANGED <<program, phase, error>>
          ELSE Throw(ASTError("Unexpected token", token.type))
     ELSE
       /\ UNCHANGED index
       /\ IF Top.kind # "" THEN Throw(ASTError("Expected", Top.kind))
          ELSE Return(Top.acc) /\ UNCHANGED error
  /\ UNCHANGED <<lexvars, tokvars, parsing, lowervars>>

\* parseStatement and parsePrimary (sin, cos) work through their parts
InParts == phase = "parse" /\ Top.fn \in {"parseStatement", "parsePrimary"}

\* const t = this.tokens[this.index++]; if (t.type !== ...) throw
StmtToken ==
  /\ InParts
  /\ Top.todo # <<>>
  /\ Head(Top.todo) \in {"identifier", "=", "string"}
  /\ index' = index + 1
  /\ IF ~HasTok THEN Throw(TypeError)
     ELSE LET t == Tok(index)
              want == Head(Top.todo)
              ok == IF want = "=" THEN t.type = "operator" /\ t.value = <<"=">>
                    ELSE t.type = want
          IN IF ~ok THEN Throw(ASTError("Expected " \o want, Top.kind))
             ELSE /\ stack' = [stack EXCEPT ![Len(stack)] =
                                 [@ EXCEPT !.todo = Tail(@),
                                           !.acc = IF want = "=" THEN @ ELSE Append(@, t.value)]]
                  /\ UNCHANGED <<program, phase, error>>
  /\ UNCHANGED <<lexvars, tokvars, parsing, lowervars>>

\* this.parseFullExpression(), that is parseComparison()
StmtExpr ==
  /\ InParts
  /\ Top.todo # <<>>
  /\ Head(Top.todo) = "expr"
  /\ Call([Top EXCEPT !.todo = Tail(@)], Frame("parseComparison", "", <<>>, "first"))
  /\ UNCHANGED <<lexvars, tokvars, parsing, lowervars, index, program, phase, error>>

\* this.parseBlock('endif'), this.parseBlock('repeat'), this.parseBlock('end')
StmtBlock ==
  /\ InParts
  /\ Top.todo # <<>>
  /\ Head(Top.todo) = "block"
  /\ Call([Top EXCEPT !.todo = Tail(@)], Frame("parseBlock", BlockEnd[Top.kind], <<>>, "loop"))
  /\ UNCHANGED <<lexvars, tokvars, parsing, lowervars, index, program, phase, error>>

\* func: one test of while (index < length && tokens[index] is an identifier)
StmtParams ==
  /\ InParts
  /\ Top.todo # <<>>
  /\ Head(Top.todo) = "params"
  /\ IF HasTok /\ Tok(index).type = "identifier"
       THEN /\ index' = index + 1
            /\ stack' = [stack EXCEPT ![Len(stack)] = [@ EXCEPT !.list = Append(@, Tok(index).value)]]
       ELSE /\ UNCHANGED index
            /\ stack' = [stack EXCEPT ![Len(stack)] =
                           [@ EXCEPT !.todo = Tail(@), !.acc = Append(@, Top.list), !.list = <<>>]]
  /\ UNCHANGED <<lexvars, tokvars, parsing, lowervars, program, phase, error>>

\* call: one test of while (index < length), canStartExpression or break
StmtArgs ==
  /\ InParts
  /\ Top.todo # <<>>
  /\ Head(Top.todo) = "args"
  /\ IF HasTok /\ canStartExpression(Tok(index))
       THEN Call(Top, Frame("parseComparison", "", <<>>, "first"))
       ELSE stack' = [stack EXCEPT ![Len(stack)] =
                        [@ EXCEPT !.todo = Tail(@), !.acc = Append(@, Top.list), !.list = <<>>]]
  /\ UNCHANGED <<lexvars, tokvars, parsing, lowervars, index, program, phase, error>>

\* call: the optional into clause
StmtInto ==
  /\ InParts
  /\ Top.todo # <<>>
  /\ Head(Top.todo) = "into"
  /\ IF HasTok /\ IsKeyword(Tok(index), "into") THEN
       IF index + 1 < Len(tokens) /\ Tok(index + 1).type = "identifier" THEN
         /\ index' = index + 2
         /\ stack' = [stack EXCEPT ![Len(stack)] =
                        [@ EXCEPT !.todo = Tail(@), !.acc = Append(@, Tok(index + 1).value)]]
         /\ UNCHANGED <<program, phase, error>>
       ELSE
         /\ index' = index + 1
         /\ Throw(ASTError("Expected identifier after", "into"))
     ELSE
       /\ UNCHANGED index
       /\ stack' = [stack EXCEPT ![Len(stack)] =
                      [@ EXCEPT !.todo = Tail(@), !.acc = Append(@, "null")]]
       /\ UNCHANGED <<program, phase, error>>
  /\ UNCHANGED <<lexvars, tokvars, parsing, lowervars>>

\* return new ...Statement(...): every part is parsed
StmtReturn ==
  /\ InParts
  /\ Top.todo = <<>>
  /\ Return([type |-> NodeType[Top.kind], parts |-> Top.acc])
  /\ UNCHANGED <<lexvars, tokvars, parsing, lowervars, index, error>>

\* parseComparison, parseAdditive, parseMultiplicative: the first operand
BinaryFirst ==
  /\ phase = "parse"
  /\ Top.fn \in BinaryLevels
  /\ Top.pc = "first"
  /\ Call(Top, Frame(Operand[Top.fn], "", <<>>, IF Operand[Top.fn] = "parseUnary" THEN "start" ELSE "first"))
  /\ UNCHANGED <<lexvars, tokvars, parsing, lowervars, index, program, phase, error>>

\* the loop parsing its right operand with the level's own method
BinaryLoop_RightRecursive ==
  /\ phase = "parse"
  /\ Top.fn \in BinaryLevels
  /\ Top.pc = "loop"
  /\ IF HasTok /\ Tok(index).type = "operator" /\ Tok(index).value \in LevelOps[Top.fn]
       THEN /\ index' = index + 1
            /\ Call([Top EXCEPT !.pc = "right", !.op = Tok(index).value],
                    Frame(Top.fn, "", <<>>, "first"))
            /\ UNCHANGED <<program, phase>>
       ELSE /\ UNCHANGED index
            /\ Return(Top.acc[1])
  /\ UNCHANGED <<lexvars, tokvars, parsing, lowervars, error>>

\* one test of while (the next token is an operator of this level)
BinaryLoop ==
  /\ phase = "parse"
  /\ Top.fn \in BinaryLevels
  /\ Top.pc = "loop"
  /\ IF HasTok /\ Tok(index).type = "operator" /\ Tok(index).value \in LevelOps[Top.fn]
       THEN /\ index' = index + 1
            /\ Call([Top EXCEPT !.pc = "right", !.op = Tok(index).value],
                    Frame(Operand[Top.fn], "", <<>>,
                          IF Operand[Top.fn] = "parseUnary" THEN "start" ELSE "first"))
            /\ UNCHANGED <<program, phase>>
       ELSE /\ UNCHANGED index
            /\ Return(Top.acc[1])
  /\ UNCHANGED <<lexvars, tokvars, parsing, lowervars, error>>

\* parseUnary, and parsePrimary when the next token is not a minus
ParseUnary ==
  /\ phase = "parse"
  /\ Top.fn = "parseUnary"
  /\ Top.pc = "start"
  /\ index' = index + 1
  /\ IF HasTok /\ Tok(index).type = "operator" /\ Tok(index).value = <<"-">> THEN
       /\ Call([Top EXCEPT !.pc = "operand"], Frame("parseUnary", "", <<>>, "start"))
       /\ UNCHANGED <<program, phase, error>>
     ELSE IF ~HasTok THEN Throw(TypeError)
     ELSE LET token == Tok(index) IN
       IF token.type = "identifier" THEN
         Return([type |-> "Identifier", name |-> token.value]) /\ UNCHANGED error
       ELSE IF token.type = "number" THEN
         Return([type |-> "NumericLiteral", value |-> token.value]) /\ UNCHANGED error
       ELSE IF token.type = "string" THEN
         Return([type |-> "StringLiteral", value |-> token.value]) /\ UNCHANGED error
       ELSE IF IsKeyword(token, "sin") \/ IsKeyword(token, "cos") THEN
         /\ stack' = [stack EXCEPT ![Len(stack)] =
                        Frame("parsePrimary", KeywordOf(token), <<"expr", "expr">>, "")]
         /\ UNCHANGED <<program, phase, error>>
       ELSE Throw(ASTError("Unexpected expression token", token.type))
  /\ UNCHANGED <<lexvars, tokvars, parsing, lowervars>>

\* parseUnary: return new UnaryMinusExpression(expr, ...)
UnaryReturn ==
  /\ phase = "parse"
  /\ Top.fn = "parseUnary"
  /\ Top.pc = "return"
  /\ Return(Top.acc[1])
  /\ UNCHANGED <<lexvars, tokvars, parsing, lowervars, index, error>>

(***************************************************************************)
(* The specifications.                                                     *)
(***************************************************************************)
FrontNext == NextChunk \/ LexChar \/ EndOfInput \/ Tokenize \/ TokenizerDone

\* the Preprocessor and the Tokenizer alone
FrontSpec == FrontInit /\ [][FrontNext]_vars

\* the chunks programs are made of
Pieces ==
  {<<"i","f"," ","a"," ">>,
   <<"e","n","d","i","f"," ">>,
   <<"f","u","n","c"," ","f"," ","a"," ">>,
   <<"e","n","d"," ">>,
   <<"c","a","l","l"," ","f"," ","1"," ">>,
   <<"i","n","t","o"," ","a"," ">>,
   <<"a"," ","="," ","-">>,
   <<"1"," ","=","="," ","1"," ">>,
   <<"s","d","l","W","i","n","d","o","w"," ","s","i","n"," ","1"," ","1"," ","'","s","'"," ","'","s","'"," ">>}

\* most chunks of a program
MaxPieces == 3

\* the whole front end on the programs of at most MaxPieces chunks
Init ==
  /\ \E n \in 0..MaxPieces : chunks \in [1..n -> Pieces]
  /\ parsing = TRUE
  /\ Constructed

Next ==
  \/ NextChunk \/ LexChar \/ EndOfInput
  \/ Tokenize \/ TokenizerDone
  \/ ParseBlock \/ StmtToken \/ StmtExpr \/ StmtBlock \/ StmtParams \/ StmtArgs
  \/ StmtInto \/ StmtReturn \/ BinaryFirst \/ BinaryLoop \/ ParseUnary \/ UnaryReturn

Spec == Init /\ [][Next]_vars

\* the stages run to completion: nothing but the program itself stops them
FairSpec == Spec /\ WF_vars(Next)

(***************************************************************************)
(* Preprocessor.process as a function of the chunks, for comparing runs.   *)
(***************************************************************************)
\* the character loop over chunk c from index k on, r holding the lexer's
\* fields and the tokens yielded so far
RECURSIVE LexChunk(_, _, _)
LexChunk(r, c, k) ==
  IF k > Len(c) THEN r
  ELSE LET s == LexStep(r.L, c[k], k + 1 <= Len(c) /\ isDigit(c[k + 1]))
       IN LexChunk([L |-> s.L, emit |-> r.emit \o s.emit], c, IF s.consumed THEN k + 1 ELSE k)

RECURSIVE LexChunks(_, _)
LexChunks(r, cs) ==
  IF cs = <<>> THEN r.emit \o LexEnd(r.L)
  ELSE LexChunks(LexChunk(r, Head(cs), 1), Tail(cs))

\* the preprocessing tokens process yields for the chunks cs
Process(cs) == LexChunks([L |-> LexerInit, emit |-> <<>>], cs)

(***************************************************************************)
(* Properties.                                                             *)
(***************************************************************************)
\* the Preprocessor has yielded its last token
lexDone == phase # "lex"

\* the run has ended with a Program or with an error, never with both
Final ==
  \/ phase = "done" /\ error = NoError /\ (parsing => program.type = "Program")
  \/ phase = "error" /\ error # NoError /\ program = NoProgram

\* C1: for every sequence of chunks the Preprocessor, the Tokenizer and the
\* ASTBuilder, run one after the other, reach the end: one Program or one
\* error, and no step is repeated forever
C1_Terminates == <>Final

C1_Witness ==
  /\ phase = "done"
  /\ Len(chunks) >= 2
  /\ program.type = "Program"
  /\ Len(program.statements) >= 2

\* C2: the preprocessing tokens are those of the text handed over as one
\* chunk, however the text is cut into chunks
C2_ChunkingIndependent == lexDone => out = Process(<<text>>)

\* the line and the column of position p of the text, counted from 1
TrueLine(p) == 1 + Cardinality({k \in 1..(p - 1) : text[k] = "\n"})

TrueColumn(p) ==
  LET before == {k \in 1..(p - 1) : text[k] = "\n"}
  IN IF before = {} THEN p ELSE p - (CHOOSE k \in before : \A j \in before : j <= k)

\* C3: once the input is exhausted exactly one eof token has been yielded,
\* it is the last token, and it carries the line and column the lexer reached;
\* before that no eof token is yielded
C3_OneEndOfInput ==
  LET eofs == {k \in 1..Len(out) : out[k].type = "eof"}
  IN IF lexDone
       THEN /\ eofs = {Len(out)}
            /\ Len(out) >= 1
            /\ out[Len(out)].line = lex.line
            /\ out[Len(out)].column = lex.column
       ELSE eofs = {}

\* the input ended inside a comment after a token and a linefeed
C3_Witness ==
  /\ lexDone
  /\ lex.state = "comment"
  /\ lex.line = 2
  /\ Len(out) >= 3

\* C4: every token but eof carries the line and column of its first
\* character, and the lexer's line and column are those of the position it is
\* at: each linefeed read has incremented the line and reset the column
C4_Positions ==
  /\ \A k \in 1..Len(out) :
       out[k].type # "eof" =>
         out[k].line = TrueLine(starts[k]) /\ out[k].column = TrueColumn(starts[k])
  /\ lex.line = TrueLine(pos)
  /\ lex.column = TrueColumn(pos)

\* the longest run of characters of a class that starts at position p
RunFrom(p, InClass(_)) ==
  LET ends == {q \in p..Len(text) : \A r \in p..q : InClass(text[r])}
  IN SubSeq(text, p, CHOOSE q \in ends : \A r \in ends : r <= q)

\* position p holds a minus read in the initial state with a digit after it
MinusDigit(p) ==
  /\ p < Len(text)
  /\ text[p] = "-"
  /\ consumedIn[p] = "initial"
  /\ isDigit(text[p + 1])

\* C5: a minus read in the initial state and directly followed by a digit
\* starts a number token holding the minus and the digits after it, and no
\* operator token starts at that minus
C5_NegativeNumber ==
  lexDone =>
    \A p \in 1..Len(text) :
      MinusDigit(p) =>
        /\ \E k \in 1..Len(out) :
             /\ starts[k] = p
             /\ out[k].type = "number"
             /\ out[k].value = <<"-">> \o RunFrom(p + 1, isDigit)
        /\ ~ \E k \in 1..Len(out) : starts[k] = p /\ out[k].type = "operator"

\* position p starts a maximal run of operator characters outside strings
\* and comments
RunStart(p) ==
  /\ isOperator(text[p])
  /\ consumedIn[p] \notin {"string", "comment"}
  /\ p = 1 \/ ~isOperator(text[p - 1])

\* exactly one token starts at p, an operator token holding the whole run
OneOperatorToken(p) ==
  /\ Cardinality({k \in 1..Len(out) : starts[k] = p /\ out[k].type # "eof"}) = 1
  /\ \E k \in 1..Len(out) :
       starts[k] = p /\ out[k].type = "operator" /\ out[k].value = RunFrom(p, isOperator)

Significant(p) == p.type \in {"identifier", "operator", "number", "string"}

InvalidOperator(p) == p.type = "operator" /\ p.value \notin operators

\* C7: an operator token outside the operator set makes the Tokenizer throw
\* a TokenizerError with that token's text, line and column; the tokens
\* yielded are those of the tokens before it and the Tokenizer takes no more
C7_InvalidOperator ==
  \A k \in 1..tpos :
    InvalidOperator(out[k]) =>
      /\ k = tpos
      /\ phase = "error"
      /\ error = [name |-> "TokenizerError", message |-> "Invalid operator",
                  value |-> out[k].value, line |-> out[k].line, column |-> out[k].column]
      /\ Len(tokens) = Len(SelectSeq(SubSeq(out, 1, k - 1), Significant))

\* the error was thrown with an identifier left to tokenize
C7_Witness ==
  /\ phase = "error"
  /\ error.name = "TokenizerError"
  /\ error.message = "Invalid operator"
  /\ error.line >= 1 /\ error.column >= 1
  /\ \E k \in (tpos + 1)..Len(out) : out[k].type = "identifier"

\* the type of the token yielded for a significant preprocessing token
TokenTypeOf(p) ==
  IF p.type = "identifier"
    THEN (IF p.value \in keywords THEN "keyword" ELSE "identifier")
    ELSE p.type

\* C8: without an invalid operator or number the tokens are the identifier,
\* operator, number and string preprocessing tokens, in order, with their
\* line and column; an identifier in the keyword set is a keyword token
C8_TokenizerOutput ==
  (phase # "error" /\ tpos = Len(out)) =>
    LET sig == SelectSeq(out, Significant)
    IN /\ Len(tokens) = Len(sig)
       /\ \A k \in 1..Len(sig) :
            /\ tokens[k].line = sig[k].line
            /\ tokens[k].column = sig[k].column
            /\ tokens[k].type = TokenTypeOf(sig[k])

\* a keyword was yielded and an unknown token dropped
C8_Witness ==
  /\ phase = "done"
  /\ \E k \in 1..Len(tokens) : tokens[k].type = "keyword"
  /\ \E k \in 1..Len(out) : out[k].type = "unknown"

\* the characters a string accumulates
StringChar(c) == isLetter(c) \/ isDigit(c) \/ isWhitespace(c) \/ isStringAllowable(c)

\* C9: when the input ends inside a string no error is raised; the last two
\* tokens are a string token, holding the opening quote and the characters
\* accumulated after it, and the eof token
C9_UnterminatedString ==
  (lexDone /\ lex.state = "string") =>
    /\ phase = "tokenize" /\ tpos = 0 => error = NoError
    /\ Len(out) >= 2
    /\ out[Len(out)].type = "eof"
    /\ out[Len(out) - 1].type = "string"
    /\ isQuote(text[curStart])
    /\ out[Len(out) - 1].value =
         <<text[curStart]>> \o SelectSeq(SubSeq(text, curStart + 1, Len(text)), StringChar)

\* the input ended inside a string with a character accumulated
C9_Witness ==
  /\ lexDone
  /\ lex.state = "string"
  /\ Len(out) >= 2
  /\ Len(out[Len(out) - 1].value) >= 2

\* C10: a string token that is closed is closed by the quote that opened it
C10_MatchingQuote ==
  \A k \in 1..Len(out) :
    (out[k].type = "string" /\ Len(out[k].value) >= 2 /\ isQuote(out[k].value[Len(out[k].value)]))
      => out[k].value[Len(out[k].value)] = out[k].value[1]

\* position k of the text is the # that starts a comment or a character
\* read in the comment state, the linefeed that ends the comment included
InComment(k) ==
  \/ consumedIn[k] = "comment"
  \/ consumedIn[k] = "initial" /\ text[k] = "#"

\* a linefeed before position p was read inside a string literal
StringLineFeedBefore(p) ==
  \E j \in 1..Len(consumedIn) : j < p /\ consumedIn[j] = "string" /\ text[j] = "\n"

TestTokens(ts) == [k \in 1..Len(ts) |-> Token(ts[k].type, ts[k].value, 1, k)]

\* build(tokens) has collected the tokens and calls parse(): no source text,
\* no Preprocessor or Tokenizer at work
Built(ts) ==
  /\ chunks = <<>>
  /\ ci = 0
  /\ i = 1
  /\ lex = LexerInit
  /\ out = <<>>
  /\ consumedIn = <<>>
  /\ curStart = 0
  /\ starts = <<>>
  /\ tpos = 0
  /\ tokens = TestTokens(ts)
  /\ error = NoError
  /\ parsing = TRUE
  /\ index = 0
  /\ stack = <<[Frame("parseBlock", "", <<>>, "loop") EXCEPT !.acc = <<>>]>>
  /\ program = NoProgram
  /\ phase = "parse"
  /\ Untranslated

\* the tokens expressions are made of
ExprAlphabet ==
  {[type |-> "identifier", value |-> <<"a">>],
   [type |-> "number", value |-> 1],
   [type |-> "operator", value |-> <<"+">>],
   [type |-> "operator", value |-> <<"-">>],
   [type |-> "operator", value |-> <<"*">>],
   [type |-> "operator", value |-> <<"=","=">>]}

\* most tokens of an expression
MaxExpr == 5

\* the assignment x = e for every token sequence e of at most MaxExpr tokens
ExprInit ==
  \E n \in 0..MaxExpr : \E e \in [1..n -> ExprAlphabet] :
    Built(<<[type |-> "identifier", value |-> <<"x">>],
            [type |-> "operator", value |-> <<"=">>]>> \o e)

ExprNext ==
  \/ ParseBlock \/ StmtToken \/ StmtExpr \/ StmtReturn
  \/ BinaryFirst \/ BinaryLoop \/ ParseUnary \/ UnaryReturn

ExprSpec == ExprInit /\ [][ExprNext]_vars

\* the precedence level of a binary operator, from low to high
Level(op) ==
  CASE op \in {<<"=","=">>, <<"!","=">>, <<"<">>, <<">">>, <<"<","=">>, <<">","=">>} -> 1
    [] op \in {<<"+">>, <<"-">>} -> 2
    [] op \in {<<"*">>, <<"/">>, <<"%">>} -> 3

\* the tokens an expression was parsed from, in order
RECURSIVE Yield(_)
Yield(e) ==
  CASE e.type = "Identifier" -> <<[type |-> "identifier", value |-> e.name]>>
    [] e.type = "NumericLiteral" -> <<[type |-> "number", value |-> e.value]>>
    [] e.type = "StringLiteral" -> <<[type |-> "string", value |-> e.value]>>
    [] e.type = "UnaryMinusExpression" ->
         <<[type |-> "operator", value |-> <<"-">>]>> \o Yield(e.argument)
    [] e.type = "BinaryExpression" ->
         Yield(e.left) \o <<[type |-> "operator", value |-> e.operator]>> \o Yield(e.right)

\* no operand of an operator is an expression of a lower level
RECURSIVE TighterBelow(_)
TighterBelow(e) ==
  CASE e.type = "UnaryMinusExpression" ->
         e.argument.type # "BinaryExpression" /\ TighterBelow(e.argument)
    [] e.type = "BinaryExpression" ->
         /\ e.left.type = "BinaryExpression" => Level(e.left.operator) >= Level(e.operator)
         /\ e.right.type = "BinaryExpression" => Level(e.right.operator) >= Level(e.operator)
         /\ TighterBelow(e.left) /\ TighterBelow(e.right)
    [] OTHER -> TRUE

\* no right operand of an operator is an expression of the operator's level
RECURSIVE LeftNested(_)
LeftNested(e) ==
  CASE e.type = "UnaryMinusExpression" -> LeftNested(e.argument)
    [] e.type = "BinaryExpression" ->
         /\ e.right.type = "BinaryExpression" => Level(e.right.operator) # Level(e.operator)
         /\ LeftNested(e.left) /\ LeftNested(e.right)
    [] OTHER -> TRUE

\* the expression of the assignment parsed
Parsed == program.statements[1].parts[2]

\* the tokens after x =
ExprTokens == [k \in 1..(Len(tokens) - 2) |-> [type |-> tokens[k + 2].type, value |-> tokens[k + 2].value]]

\* C12: the expression parsed is made of the tokens in their order, an
\* operand of a binary operator is never a binary expression of a lower
\* level (comparison, additive, multiplicative from low to high), and the
\* operand of a unary minus is never a binary expression
C12_Precedence ==
  (phase = "done" /\ Len(program.statements) = 1 /\ Len(tokens) > 2) =>
    /\ Yield(Parsed) = ExprTokens
    /\ TighterBelow(Parsed)

\* an expression like a + b * c was parsed: a higher operator under a lower's
\* right operand
C12_Witness ==
  /\ phase = "done"
  /\ Len(program.statements) = 1
  /\ Parsed.type = "BinaryExpression"
  /\ Parsed.right.type = "BinaryExpression"
  /\ Level(Parsed.right.operator) > Level(Parsed.operator)

\* C13: the expression parsed is made of the tokens in their order and no
\* right operand of a binary operator is a binary expression of the same
\* level: operators of one level nest to the left
C13_LeftAssociative ==
  (phase = "done" /\ Len(program.statements) = 1 /\ Len(tokens) > 2) =>
    /\ Yield(Parsed) = ExprTokens
    /\ LeftNested(Parsed)

\* an expression like a - b + c was parsed: Binary(+, Binary(-, a, b), c)
C13_Witness ==
  /\ phase = "done"
  /\ Len(program.statements) = 1
  /\ Parsed.type = "BinaryExpression"
  /\ Parsed.left.type = "BinaryExpression"
  /\ Level(Parsed.left.operator) = Level(Parsed.operator)
  /\ Parsed.left.operator # Parsed.operator

(***************************************************************************)
(* The front end on programs of blocks and identifier statements.          *)
(***************************************************************************)
\* the chunks these programs are made of
BlockPieces ==
  {<<"i","f"," ","a"," ">>,
   <<"e","n","d","i","f"," ">>,
   <<"a","s"," ","a"," ">>,
   <<"r","e","p","e","a","t"," ">>,
   <<"f","u","n","c"," ","f"," ">>,
   <<"e","n","d"," ">>,
   <<"a"," ">>,
   <<"="," ","-"," ","a"," ">>,
   <<"a","[","1","]"," ">>}

\* most chunks of such a program
MaxBlocks == 4

BlockInit ==
  /\ \E n \in 0..MaxBlocks : chunks \in [1..n -> BlockPieces]
  /\ parsing = TRUE
  /\ Constructed

BlockNext ==
  \/ NextChunk \/ LexChar \/ EndOfInput
  \/ Tokenize \/ TokenizerDone
  \/ ParseBlock \/ StmtToken \/ StmtExpr \/ StmtBlock \/ StmtParams
  \/ StmtReturn \/ BinaryFirst \/ BinaryLoop \/ ParseUnary \/ UnaryReturn

BlockSpec == BlockInit /\ [][BlockNext]_vars

\* the token opens a block, closes one
Opens(t) == t.type = "keyword" /\ KeywordOf(t) \in DOMAIN BlockEnd

Closes(t) == t.type = "keyword" /\ KeywordOf(t) \in {BlockEnd[k] : k \in DOMAIN BlockEnd}

\* the tokens from the k-th on read against the closers st of the blocks
\* open, innermost last: whether a closer met is not the innermost block's,
\* and the closers of the blocks left open at the end
RECURSIVE Nesting(_, _)
Nesting(k, st) ==
  IF k > Len(tokens) THEN [bad |-> FALSE, open |-> st]
  ELSE IF Opens(tokens[k]) THEN Nesting(k + 1, Append(st, BlockEnd[KeywordOf(tokens[k])]))
  ELSE IF Closes(tokens[k]) THEN
    IF st # <<>> /\ st[Len(st)] = KeywordOf(tokens[k])
      THEN Nesting(k + 1, SubSeq(st, 1, Len(st) - 1))
      ELSE [bad |-> TRUE, open |-> st]
  ELSE Nesting(k + 1, st)

\* the parser threw because no token was left to read
ThrownAtEnd ==
  /\ phase = "error"
  /\ \/ error.name = "TypeError"
     \/ error.name = "ASTError" /\ error.message = "Expected"

\* parsing succeeds only on properly nested blocks
NestedWhenDone ==
  phase = "done" => (~Nesting(1, <<>>).bad /\ Nesting(1, <<>>).open = <<>>)

\* C14: parsing succeeds only if every if, as and func is closed by its own
\* closer in properly nested order, and when the input ends with a block
\* still open the error thrown names the closer of the innermost open block
C14_Blocks ==
  /\ NestedWhenDone
  /\ LET r == Nesting(1, <<>>)
     IN (ThrownAtEnd /\ ~r.bad /\ r.open # <<>>) =>
          error = ASTError("Expected", r.open[Len(r.open)])

\* the preprocessing tokens but whitespace, linefeed and eof
Words == SelectSeq(out, LAMBDA p : p.type \notin {"whitespace", "linefeed", "eof"})

\* the first statement failed for want of the = after its identifier
FirstNotAssigned == error = ASTError("Expected =", "assignment") /\ index = 2

\* C15: a program whose first statement begins with an identifier: followed
\* by [ the statement parses as an array assignment, followed by = it parses
\* as a plain assignment, and followed by anything else it is a parse error
C15_IdentifierStatement ==
  (phase \in {"done", "error"} /\ error.name # "TokenizerError" /\ Len(Words) >= 2
     /\ Words[1].type = "identifier" /\ Words[1].value \notin keywords) =>
    IF Words[2].type = "unknown" /\ Words[2].value = <<"[">> THEN
      /\ ~FirstNotAssigned
      /\ phase = "done" => program.statements[1].type = "ArrayAssignment"
    ELSE IF Words[2].type = "operator" /\ Words[2].value = <<"=">> THEN
      /\ ~FirstNotAssigned
      /\ phase = "done" => program.statements[1].type = "AssignmentExpression"
    ELSE FirstNotAssigned

(***************************************************************************)
(* LLVMTranslator: the IR it is handed                                     *)
(***************************************************************************)
Identifier(name) == [type |-> "Identifier", name |-> name]

NumericLiteral(value) == [type |-> "NumericLiteral", value |-> value]

StringLiteral(value) == [type |-> "StringLiteral", value |-> value]

BinaryExpression(left, operator, right) ==
  [type |-> "BinaryExpression", left |-> left, operator |-> operator,
   right |-> right]

VariableDeclaration(identifier, value) ==
  [type |-> "VariableDeclaration", identifier |-> identifier, value |-> value]

AssignmentExpression(left, right) ==
  [type |-> "AssignmentExpression", left |-> left, right |-> right]

IfStatement(test, consequent) ==
  [type |-> "IfStatement", test |-> test, consequent |-> consequent]

WhileStatement(test, body) ==
  [type |-> "WhileStatement", test |-> test, body |-> body]

FunctionDeclaration(name, params, body) ==
  [type |-> "FunctionDeclaration", name |-> name, params |-> params,
   body |-> body]

FreeStatement(identifier) == [type |-> "FreeStatement", identifier |-> identifier]

ReturnStatement(argument) == [type |-> "ReturnStatement", argument |-> argument]

\* result is "" where the IR holds null
CallStatement(callee, arguments, result) ==
  [type |-> "CallStatement", callee |-> callee, arguments |-> arguments,
   result |-> result]

(***************************************************************************)
(* LLVMTranslator.getExpressionType                                        *)
(***************************************************************************)
\* a variant that wants both operands of + to be strings
BinaryType_BothStrings(operator, leftType, rightType) ==
  IF operator = "+" /\ leftType = "string" /\ rightType = "string"
    THEN "string"
    ELSE "int"

\* the BinaryExpression branch, the operand types known
BinaryType(operator, leftType, rightType) ==
  IF operator = "+" /\ (leftType = "string" \/ rightType = "string")
    THEN "string"
    ELSE IF operator \in {"==", "!=", "<", "<=", ">", ">="}
      THEN "int"
      ELSE "int"

\* vs is this.variables
RECURSIVE getExpressionType(_, _)
getExpressionType(expr, vs) ==
  CASE expr.type = "Identifier" ->
         IF vs[expr.name] # NoVar THEN vs[expr.name].type ELSE "int"
    [] expr.type = "NumericLiteral" -> "int"
    [] expr.type = "StringLiteral" -> "string"
    [] expr.type = "BinaryExpression" ->
         BinaryType(expr.operator, getExpressionType(expr.left, vs),
                    getExpressionType(expr.right, vs))
    [] OTHER -> "int"

(***************************************************************************)
(* LLVMTranslator.collectFunctionSignatures                                *)
(***************************************************************************)
\* a variant in which the type of the latest call site replaces the recorded one
MergeSignature_LastWins(signature, argTypes) ==
  [k \in 1..(IF Len(signature) > Len(argTypes) THEN Len(signature)
                                               ELSE Len(argTypes)) |->
     IF k > Len(argTypes) THEN signature[k] ELSE argTypes[k]]

\* the loop over argTypes: a new position is pushed, a recorded 'int' becomes
\* 'string' when the call site has a string there, nothing else changes
MergeSignature(signature, argTypes) ==
  [k \in 1..(IF Len(signature) > Len(argTypes) THEN Len(signature)
                                               ELSE Len(argTypes)) |->
     IF k > Len(argTypes) THEN signature[k]
     ELSE IF k > Len(signature) THEN argTypes[k]
     ELSE IF signature[k] # argTypes[k] /\ signature[k] = "int"
             /\ argTypes[k] = "string"
       THEN "string"
       ELSE signature[k]]

\* one turn of the loop over the statements; a nested body is visited
\* before the statements that follow it
Collect ==
  /\ phase = "collect"
  /\ visit # <<>>
  /\ LET stmt == Head(visit) IN
       CASE stmt.type = "CallStatement" ->
              /\ functionSignatures' =
                   [functionSignatures EXCEPT ![stmt.callee] =
                      MergeSignature(@,
                        [k \in 1..Len(stmt.arguments) |->
                           getExpressionType(stmt.arguments[k], variables)])]
              /\ visit' = Tail(visit)
         [] stmt.type = "FunctionDeclaration" ->
              /\ visit' = stmt.body \o Tail(visit)
              /\ UNCHANGED functionSignatures
         [] stmt.type = "IfStatement" ->
              /\ visit' = stmt.consequent \o Tail(visit)
              /\ UNCHANGED functionSignatures
         [] stmt.type = "WhileStatement" ->
              /\ visit' = stmt.body \o Tail(visit)
              /\ UNCHANGED functionSignatures
         [] OTHER ->
              /\ visit' = Tail(visit)
              /\ UNCHANGED functionSignatures
  /\ UNCHANGED <<lexvars, tokvars, parsevars, error, parsing, phase>>
  /\ UNCHANGED <<ir, variables, scopes, work, functions, emitted, buildvars>>

\* translate: the signatures are collected, main is created with its entry
\* block, the builder is set to it and the loop over ir.statements begins
CollectDone ==
  /\ phase = "collect"
  /\ visit = <<>>
  /\ phase' = "lower"
  /\ work' = ir
  /\ functions' = functions \cup {"main"}
  /\ function' = "main"
  /\ blocks' = Append(blocks, "main")
  /\ insertBlock' = Len(blocks) + 1
  /\ UNCHANGED <<lexvars, tokvars, parsevars, error, parsing>>
  /\ UNCHANGED <<ir, visit, functionSignatures, variables, scopes, emitted>>
  /\ UNCHANGED <<blockOf, saved, printed>>

(***************************************************************************)
(* LLVMTranslator: the instructions the builder creates.  An instruction   *)
(* is named by its place in emitted, a basic block by its place in blocks. *)
(***************************************************************************)
\* operands: the result of an instruction, an integer constant, a global
\* string constant, a function argument
Inst(n) == [k |-> "inst", n |-> n, s |-> ""]

getInt32(n) == [k |-> "int", n |-> n, s |-> ""]

Global(s) == [k |-> "global", n |-> 0, s |-> s]

Arg(n) == [k |-> "arg", n |-> n, s |-> ""]

\* a basic block as the target of a branch
Block(b) == [k |-> "block", n |-> b, s |-> ""]

Ins(op, args) == [op |-> op, fn |-> "", args |-> args]

\* builder.CreateCall(module.getFunction(fn), args)
CreateCall(fn, args) == [op |-> "call", fn |-> fn, args |-> args]

CreateAlloca(name) == [op |-> "alloca", fn |-> name, args |-> <<>>]

CreateLoad(slot) == Ins("load", <<Inst(slot)>>)

CreateStore(value, slot) == Ins("store", <<value, Inst(slot)>>)

CreateRet(value) == Ins("ret", <<value>>)

CreateBr(b) == Ins("br", <<Block(b)>>)

CreateCondBr(cond, thenBB, elseBB) ==
  Ins("condbr", <<cond, Block(thenBB), Block(elseBB)>>)

\* the instructions that end a basic block
IsTerminator(ins) == ins.op \in {"ret", "br", "condbr"}

\* what the inserts of code into block b add to blockOf
Into(b, code) == [j \in 1..Len(code) |-> b]

\* block.getTerminator(): whether the last instruction of block b is a
\* terminator, em the instructions and bo their blocks
getTerminator(b, em, bo) ==
  \E k \in 1..Len(em) :
     /\ bo[k] = b
     /\ IsTerminator(em[k])
     /\ \A m \in (k + 1)..Len(em) : bo[m] # b

\* a variant of the verifier's check that lets every block pass
WellFormed_Any(b, em, bo) == TRUE

\* what the verifier wants of block b: it ends with a terminator and holds
\* no other one
WellFormed(b, em, bo) ==
  /\ getTerminator(b, em, bo)
  /\ \A k \in 1..Len(em) :
        (bo[k] = b /\ IsTerminator(em[k])) =>
          \A m \in (k + 1)..Len(em) : bo[m] # b

\* llvm.verifyFunction(fn): true when a block of fn is broken
verifyFunction(fn, bl, em, bo) ==
  \E b \in 1..Len(bl) : bl[b] = fn /\ ~WellFormed(b, em, bo)

\* llvm.verifyModule(module): true when a function of the module is broken
verifyModule(bl, em, bo) ==
  \E b \in 1..Len(bl) : ~WellFormed(b, em, bo)

LowerError(message, what) == [name |-> "Error", message |-> message, what |-> what]

\* what a translate method hands back: the instructions it created, its
\* value, and the error it threw
Lowered(code, value) == [code |-> code, value |-> value, err |-> NoError]

Failed(code, e) == [code |-> code, value |-> getInt32(0), err |-> e]

\* intToString(value), base instructions created before it
intToString(value, base) ==
  Lowered(<<CreateCall("malloc", <<getInt32(32)>>),
            CreateCall("sprintf", <<Inst(base + 1), Global("%d"), value>>)>>,
          Inst(base + 1))

\* stringConcat once both operands are strings: the result buffer is
\* allocated, the operands are copied and appended, and the buffers
\* intToString made are freed; b instructions were created before
ConcatBuffers(leftStr, rightStr, leftType, rightType, b) ==
  Lowered(
    leftStr.code \o rightStr.code \o
    <<CreateCall("strlen", <<leftStr.value>>),
      CreateCall("strlen", <<rightStr.value>>),
      Ins("add", <<Inst(b + 1), Inst(b + 2)>>),
      Ins("add", <<Inst(b + 3), getInt32(1)>>),
      CreateCall("malloc", <<Inst(b + 4)>>),
      CreateCall("strcpy", <<Inst(b + 5), leftStr.value>>),
      CreateCall("strcat", <<Inst(b + 5), rightStr.value>>)>> \o
    (IF leftType = "int" THEN <<CreateCall("free", <<leftStr.value>>)>>
                         ELSE <<>>) \o
    (IF rightType = "int" THEN <<CreateCall("free", <<rightStr.value>>)>>
                          ELSE <<>>),
    Inst(b + 5))

\* stringConcat once the left operand is a string
ConcatRight(leftStr, rightStr, leftType, rightType, b) ==
  ConcatBuffers(leftStr, rightStr, leftType, rightType, b + Len(rightStr.code))

ConcatLeft(leftStr, right, leftType, rightType, b) ==
  ConcatRight(leftStr,
              IF rightType = "int" THEN intToString(right, b)
                                   ELSE Lowered(<<>>, right),
              leftType, rightType, b)

\* stringConcat(left, right, leftType, rightType)
stringConcat(left, right, leftType, rightType, base) ==
  IF leftType = "int"
    THEN ConcatLeft(intToString(left, base), right, leftType, rightType, base + 2)
    ELSE ConcatLeft(Lowered(<<>>, left), right, leftType, rightType, base)

\* the switch of translateBinaryExpression, the operands lowered
BinaryCode(operator, left, right, leftType, rightType, base) ==
  CASE operator = "+" ->
         IF leftType = "string" \/ rightType = "string"
           THEN stringConcat(left, right, leftType, rightType, base)
           ELSE Lowered(<<Ins("add", <<left, right>>)>>, Inst(base + 1))
    [] operator = "-" -> Lowered(<<Ins("sub", <<left, right>>)>>, Inst(base + 1))
    [] operator = "*" -> Lowered(<<Ins("mul", <<left, right>>)>>, Inst(base + 1))
    [] operator = "/" ->
         Lowered(<<Ins("icmp", <<right, getInt32(0)>>),
                   Ins("select", <<Inst(base + 1), getInt32(1), right>>),
                   Ins("sdiv", <<left, Inst(base + 2)>>)>>, Inst(base + 3))
    [] operator = "%" -> Lowered(<<Ins("srem", <<left, right>>)>>, Inst(base + 1))
    [] operator \in {"==", "!=", "<", "<=", ">", ">="} ->
         IF leftType = "string" /\ rightType = "string"
           THEN Lowered(<<CreateCall("strcmp", <<left, right>>),
                          Ins("icmp", <<Inst(base + 1), getInt32(0)>>),
                          Ins("zext", <<Inst(base + 2)>>)>>, Inst(base + 3))
           ELSE Lowered(<<Ins("icmp", <<left, right>>),
                          Ins("zext", <<Inst(base + 1)>>)>>, Inst(base + 2))
    [] OTHER -> Failed(<<>>, LowerError("Unknown operator", operator))

\* translateExpression(expr) with this.variables = vs, base instructions
\* created before it
RECURSIVE translateExpression(_, _, _)

\* the instructions of the operands go before those of the operation
AfterOperands(code, r) == [r EXCEPT !.code = code \o @]

\* translateBinaryExpression, both operands lowered
BinaryJoin(expr, vs, left, right, b) ==
  IF right.err # NoError
    THEN Failed(left.code \o right.code, right.err)
    ELSE AfterOperands(left.code \o right.code,
           BinaryCode(expr.operator, left.value, right.value,
                      getExpressionType(expr.left, vs),
                      getExpressionType(expr.right, vs), b + Len(right.code)))

\* translateBinaryExpression, the left operand lowered
BinaryRight(expr, vs, left, b) ==
  IF left.err # NoError THEN left
  ELSE BinaryJoin(expr, vs, left, translateExpression(expr.right, vs, b), b)

BinaryLeft(expr, vs, left, base) ==
  BinaryRight(expr, vs, left, base + Len(left.code))

translateExpression(expr, vs, base) ==
  CASE expr.type = "Identifier" ->
         IF vs[expr.name] = NoVar
           THEN Failed(<<>>, LowerError("Undefined variable", expr.name))
           ELSE Lowered(<<CreateLoad(vs[expr.name].value)>>, Inst(base + 1))
    [] expr.type = "NumericLiteral" -> Lowered(<<>>, getInt32(expr.value))
    [] expr.type = "StringLiteral" -> Lowered(<<>>, Global(expr.value))
    [] expr.type = "BinaryExpression" ->
         BinaryLeft(expr, vs, translateExpression(expr.left, vs, base), base)
    [] OTHER -> Failed(<<>>, LowerError("Unknown expression type", expr.type))

(***************************************************************************)
(* LLVMTranslator.translateStatement                                       *)
(***************************************************************************)
\* what lowering a statement hands back: the instructions created, the
\* variables map afterwards, the error thrown
Done(code, vs) == [code |-> code, variables |-> vs, err |-> NoError]

Thrown(code, vs, e) == [code |-> code, variables |-> vs, err |-> e]

\* strlen, allocSize, malloc, strcpy: the copy of a string literal
\* into a buffer of its own, which is instruction base + 3
CopyLiteral(value, base) ==
  <<CreateCall("strlen", <<value>>),
    Ins("add", <<Inst(base + 1), getInt32(1)>>),
    CreateCall("malloc", <<Inst(base + 2)>>),
    CreateCall("strcpy", <<Inst(base + 3), value>>)>>

\* the VariableDeclaration branch after translateExpression: the alloca is
\* instruction base + 1
DeclarationCode(stmt, type, value, base) ==
  IF type = "string" /\ stmt.value.type = "StringLiteral"
    THEN <<CreateAlloca(stmt.identifier)>> \o CopyLiteral(value, base + 1) \o
         <<CreateStore(Inst(base + 4), base + 1)>>
    ELSE <<CreateAlloca(stmt.identifier), CreateStore(value, base + 1)>>

\* a variant that stores the new value before it loads and frees the old one
AssignmentCode_FreeAfterStore(stmt, varInfo, value, base) ==
  LET copy == IF varInfo.type = "string" /\ stmt.right.type = "StringLiteral"
                THEN CopyLiteral(value, base) ELSE <<>>
      finalValue == IF copy # <<>> THEN Inst(base + 3) ELSE value
      b == base + Len(copy)
  IN copy \o <<CreateStore(finalValue, varInfo.value)>> \o
     (IF varInfo.type = "string"
        THEN <<CreateLoad(varInfo.value), CreateCall("free", <<Inst(b + 2)>>)>>
        ELSE <<>>)

\* the AssignmentExpression branch after the variable is found: a literal is
\* copied, the old string value is loaded and freed, the new one is stored
AssignmentCode(stmt, varInfo, value, base) ==
  LET copy == IF varInfo.type = "string" /\ stmt.right.type = "StringLiteral"
                THEN CopyLiteral(value, base) ELSE <<>>
      finalValue == IF copy # <<>> THEN Inst(base + 3) ELSE value
      b == base + Len(copy)
  IN copy \o
     (IF varInfo.type = "string"
        THEN <<CreateLoad(varInfo.value), CreateCall("free", <<Inst(b + 1)>>)>>
        ELSE <<>>) \o
     <<CreateStore(finalValue, varInfo.value)>>

\* stmt.arguments.map((arg) => this.translateExpression(arg)), from argument k
RECURSIVE translateArguments(_, _, _, _)

JoinArguments(a, rest) ==
  [code |-> a.code \o rest.code, values |-> <<a.value>> \o rest.values,
   err |-> rest.err]

ArgumentThen(arguments, k, vs, base, a) ==
  IF a.err # NoError THEN [code |-> a.code, values |-> <<>>, err |-> a.err]
  ELSE JoinArguments(a, translateArguments(arguments, k + 1, vs, base + Len(a.code)))

translateArguments(arguments, k, vs, base) ==
  IF k > Len(arguments) THEN [code |-> <<>>, values |-> <<>>, err |-> NoError]
  ELSE ArgumentThen(arguments, k, vs, base,
                    translateExpression(arguments[k], vs, base))

\* the VariableDeclaration branch, the initial value lowered to e
Declare(stmt, vs, base, e, type) ==
  IF e.err # NoError THEN Thrown(e.code, vs, e.err)
  ELSE Done(e.code \o DeclarationCode(stmt, type, e.value, base + Len(e.code)),
            [vs EXCEPT ![stmt.identifier] =
               [type |-> type, value |-> base + Len(e.code) + 1]])

\* the AssignmentExpression branch, the right side lowered to e
Assign(stmt, vs, base, e) ==
  IF e.err # NoError THEN Thrown(e.code, vs, e.err)
  ELSE IF vs[stmt.left] = NoVar
    THEN Thrown(e.code, vs, LowerError("Undefined variable", stmt.left))
    ELSE Done(e.code \o AssignmentCode(stmt, vs[stmt.left], e.value,
                                       base + Len(e.code)), vs)

\* the CallStatement branch, the callee found and the arguments lowered to a
CallWith(stmt, vs, base, a) ==
  IF a.err # NoError THEN Thrown(a.code, vs, a.err)
  ELSE IF stmt.result = ""
    THEN Done(a.code \o <<CreateCall(stmt.callee, a.values)>>, vs)
    ELSE IF vs[stmt.result] = NoVar
      THEN Thrown(a.code \o <<CreateCall(stmt.callee, a.values)>>, vs,
                  LowerError("Undefined result variable", stmt.result))
      ELSE Done(a.code \o
                <<CreateCall(stmt.callee, a.values),
                  CreateStore(Inst(base + Len(a.code) + 1), vs[stmt.result].value)>>,
                vs)

\* the FreeStatement branch: the buffer of a string variable is loaded and
\* freed, the variable goes on holding it
FreeBuffer(stmt, vs, base) ==
  IF vs[stmt.identifier] = NoVar
    THEN Thrown(<<>>, vs, LowerError("Undefined variable", stmt.identifier))
    ELSE IF vs[stmt.identifier].type = "string"
      THEN Done(<<CreateLoad(vs[stmt.identifier].value),
                  CreateCall("free", <<Inst(base + 1)>>)>>, vs)
      ELSE Done(<<>>, vs)

\* a variant that loads the variable and does not return
ReturnValue_Loads(stmt, vs, base) ==
  IF vs[stmt.argument] = NoVar
    THEN Thrown(<<>>, vs, LowerError("Undefined variable", stmt.argument))
    ELSE Done(<<CreateLoad(vs[stmt.argument].value)>>, vs)

\* the ReturnStatement branch: the variable is loaded and returned
ReturnValue(stmt, vs, base) ==
  IF vs[stmt.argument] = NoVar
    THEN Thrown(<<>>, vs, LowerError("Undefined variable", stmt.argument))
    ELSE Done(<<CreateLoad(vs[stmt.argument].value), CreateRet(Inst(base + 1))>>,
              vs)

\* translateStatement(stmt) for the statements without a body; fns are the
\* functions of the module
translateStatement(stmt, vs, fns, base) ==
  CASE stmt.type = "VariableDeclaration" ->
         Declare(stmt, vs, base, translateExpression(stmt.value, vs, base),
                 getExpressionType(stmt.value, vs))
    [] stmt.type = "AssignmentExpression" ->
         Assign(stmt, vs, base, translateExpression(stmt.right, vs, base))
    [] stmt.type = "FreeStatement" -> FreeBuffer(stmt, vs, base)
    [] stmt.type = "ReturnStatement" -> ReturnValue(stmt, vs, base)
    [] stmt.type = "CallStatement" ->
         IF stmt.callee \notin fns
           THEN Thrown(<<>>, vs, LowerError("Undefined function", stmt.callee))
           ELSE CallWith(stmt, vs, base,
                         translateArguments(stmt.arguments, 1, vs, base))
    [] OTHER -> Done(<<>>, vs)

\* the mark left in work where the body of a function ends
EndOfFunction == [type |-> "EndOfFunction"]

\* the mark left in work where the body of an if or a while ends: the block
\* the body branches to, the else block (0 for a while), the block that
\* follows
EndOfBody(target, elseBB, next) ==
  [type |-> "EndOfBody", target |-> target, elseBB |-> elseBB, next |-> next]

\* one turn of a loop over statements, on a statement without a body
TranslateStatement ==
  /\ phase = "lower"
  /\ work # <<>>
  /\ Head(work).type \in {"VariableDeclaration", "AssignmentExpression",
                          "FreeStatement", "ReturnStatement", "CallStatement"}
  /\ \E r \in {translateStatement(Head(work), variables, functions, Len(emitted))} :
       /\ emitted' = emitted \o r.code
       /\ blockOf' = blockOf \o Into(insertBlock, r.code)
       /\ variables' = r.variables
       /\ IF r.err # NoError
            THEN error' = r.err /\ phase' = "error" /\ work' = <<>>
            ELSE work' = Tail(work) /\ UNCHANGED <<error, phase>>
  /\ UNCHANGED <<lexvars, tokvars, parsevars, parsing>>
  /\ UNCHANGED <<ir, visit, functionSignatures, scopes, functions>>
  /\ UNCHANGED <<blocks, insertBlock, function, saved, printed>>

\* translateIf up to the loop over the body: the condition is lowered in the
\* current block and compared with 0, the blocks then, else and merge are
\* created, the branch is made and the builder is set to then
IfCode(stmt, cond, n) ==
  [code |-> cond.code \o
            <<Ins("icmp", <<cond.value, getInt32(0)>>),
              CreateCondBr(Inst(Len(emitted) + Len(cond.code) + 1), n + 1, n + 2)>>,
   blockOf |-> Into(insertBlock, cond.code) \o <<insertBlock, insertBlock>>,
   insertBlock |-> n + 1,
   work |-> stmt.consequent \o <<EndOfBody(n + 3, n + 2, n + 3)>>]

\* translateWhile up to the loop over the body: the blocks cond, body and
\* exit are created, the current block branches to cond, the condition is
\* lowered there, the branch is made and the builder is set to body
WhileCode(stmt, cond, n) ==
  [code |-> <<CreateBr(n + 1)>> \o cond.code \o
            <<Ins("icmp", <<cond.value, getInt32(0)>>),
              CreateCondBr(Inst(Len(emitted) + Len(cond.code) + 2), n + 2, n + 3)>>,
   blockOf |-> <<insertBlock>> \o Into(n + 1, cond.code) \o <<n + 1, n + 1>>,
   insertBlock |-> n + 2,
   work |-> stmt.body \o <<EndOfBody(n + 1, 0, n + 3)>>]

\* translateIf and translateWhile up to the loop over the body, which runs in
\* the same variables
TranslateIf ==
  /\ phase = "lower"
  /\ work # <<>>
  /\ Head(work).type \in {"IfStatement", "WhileStatement"}
  /\ \E stmt \in {Head(work)} :
     \E first \in {IF stmt.type = "IfStatement" THEN 0 ELSE 1} :
     \E cond \in {translateExpression(stmt.test, variables, Len(emitted) + first)} :
        IF cond.err # NoError
          THEN /\ emitted' = emitted \o
                             (IF first = 1 THEN <<CreateBr(Len(blocks) + 1)>>
                                           ELSE <<>>) \o cond.code
               /\ blockOf' = blockOf \o
                             (IF first = 1
                                THEN <<insertBlock>> \o
                                     Into(Len(blocks) + 1, cond.code)
                                ELSE Into(insertBlock, cond.code))
               /\ insertBlock' = IF first = 1 THEN Len(blocks) + 1 ELSE insertBlock
               /\ error' = cond.err
               /\ phase' = "error"
               /\ work' = <<>>
          ELSE \E c \in {IF first = 1 THEN WhileCode(stmt, cond, Len(blocks))
                                      ELSE IfCode(stmt, cond, Len(blocks))} :
               /\ emitted' = emitted \o c.code
               /\ blockOf' = blockOf \o c.blockOf
               /\ insertBlock' = c.insertBlock
               /\ work' = c.work \o Tail(work)
               /\ UNCHANGED <<error, phase>>
  /\ blocks' = blocks \o <<function, function, function>>
  /\ UNCHANGED <<lexvars, tokvars, parsevars, parsing>>
  /\ UNCHANGED <<ir, visit, functionSignatures, variables, scopes, functions>>
  /\ UNCHANGED <<function, saved, printed>>

\* translateIf and translateWhile after the loop over the body: the current
\* block branches to merge or back to cond, the else block of an if branches
\* to merge, and the builder is set to merge or to exit
EndBody ==
  /\ phase = "lower"
  /\ work # <<>>
  /\ Head(work).type = "EndOfBody"
  /\ \E mark \in {Head(work)} :
       /\ emitted' = emitted \o <<CreateBr(mark.target)>> \o
                     (IF mark.elseBB # 0 THEN <<CreateBr(mark.target)>> ELSE <<>>)
       /\ blockOf' = blockOf \o <<insertBlock>> \o
                     (IF mark.elseBB # 0 THEN <<mark.elseBB>> ELSE <<>>)
       /\ insertBlock' = mark.next
  /\ work' = Tail(work)
  /\ UNCHANGED <<lexvars, tokvars, parsevars, error, parsing, phase>>
  /\ UNCHANGED <<ir, visit, functionSignatures, variables, scopes, functions>>
  /\ UNCHANGED <<blocks, function, saved, printed>>

\* a variant that takes every parameter for an int
ParamType_AlwaysInt(signature, k) == "int"

\* signature[i] || 'int', i from 1
ParamType(signature, k) == IF k <= Len(signature) THEN signature[k] ELSE "int"

\* translateFunctionDeclaration up to the loop over the body: the function is
\* created with its entry block, the builder position, the variables and the
\* function are saved, the variables are cleared, the builder is set to the
\* entry block, each parameter gets an alloca and an entry of the type its
\* signature has
TranslateFunctionDeclaration ==
  /\ phase = "lower"
  /\ work # <<>>
  /\ Head(work).type = "FunctionDeclaration"
  /\ LET stmt == Head(work)
         signature == functionSignatures[stmt.name]
         base == Len(emitted)
     IN /\ functions' = functions \cup {stmt.name}
        /\ scopes' = Append(scopes, variables)
        /\ saved' = Append(saved, [stmt |-> stmt, insertPoint |-> insertBlock,
                                   function |-> function])
        /\ function' = stmt.name
        /\ blocks' = Append(blocks, stmt.name)
        /\ insertBlock' = Len(blocks) + 1
        /\ emitted' = emitted \o
             [j \in 1..(2 * Len(stmt.params)) |->
                IF j % 2 = 1 THEN CreateAlloca(stmt.params[(j + 1) \div 2])
                             ELSE CreateStore(Arg(j \div 2), base + j - 1)]
        /\ blockOf' = blockOf \o
             [j \in 1..(2 * Len(stmt.params)) |-> Len(blocks) + 1]
        /\ variables' =
             [n \in VarNames |->
                IF \E k \in 1..Len(stmt.params) : stmt.params[k] = n
                  THEN LET k == CHOOSE k \in 1..Len(stmt.params) :
                                  /\ stmt.params[k] = n
                                  /\ \A m \in (k + 1)..Len(stmt.params) :
                                       stmt.params[m] # n
                       IN [type |-> ParamType(signature, k), value |-> base + 2 * k - 1]
                  ELSE NoVar]
        /\ work' = stmt.body \o <<EndOfFunction>> \o Tail(work)
  /\ UNCHANGED <<lexvars, tokvars, parsevars, error, parsing, phase>>
  /\ UNCHANGED <<ir, visit, functionSignatures, printed>>

\* a variant that leaves the variables of the body in place
savedVariables_OfBody(sc) == variables

\* const savedVariables = new Map(this.variables) of the innermost
\* declaration at work
savedVariables(sc) == sc[Len(sc)]

\* the default return: ret 0 unless the current block has a terminator
DefaultReturn(b, em, bo) ==
  IF getTerminator(b, em, bo) THEN <<>> ELSE <<CreateRet(getInt32(0))>>

\* translateFunctionDeclaration after the loop over the body: the default
\* return is added, the function is verified, and the saved builder
\* position, variables and function are restored
EndFunction ==
  /\ phase = "lower"
  /\ work # <<>>
  /\ Head(work) = EndOfFunction
  /\ emitted' = emitted \o DefaultReturn(insertBlock, emitted, blockOf)
  /\ blockOf' = blockOf \o
                Into(insertBlock, DefaultReturn(insertBlock, emitted, blockOf))
  /\ IF verifyFunction(function, blocks, emitted', blockOf')
       THEN /\ error' = LowerError("Function verification failed for", function)
            /\ phase' = "error"
            /\ work' = <<>>
            /\ UNCHANGED <<variables, scopes, saved, insertBlock, function>>
       ELSE /\ insertBlock' = saved[Len(saved)].insertPoint
            /\ function' = saved[Len(saved)].function
            /\ saved' = SubSeq(saved, 1, Len(saved) - 1)
            /\ variables' = savedVariables(scopes)
            /\ scopes' = SubSeq(scopes, 1, Len(scopes) - 1)
            /\ work' = Tail(work)
            /\ UNCHANGED <<error, phase>>
  /\ UNCHANGED <<lexvars, tokvars, parsevars, parsing>>
  /\ UNCHANGED <<ir, visit, functionSignatures, functions, blocks, printed>>

\* what module.print() gives: the functions and their instructions, block by
\* block
ModuleText(fns, bl, em, bo) ==
  [type |-> "module", functions |-> fns, blocks |-> bl, instructions |-> em,
   blockOf |-> bo]

\* translate after the loop over ir.statements: main returns 0, the function
\* and the module are verified and the module is printed
TranslateDone ==
  /\ phase = "lower"
  /\ work = <<>>
  /\ emitted' = Append(emitted, CreateRet(getInt32(0)))
  /\ blockOf' = Append(blockOf, insertBlock)
  /\ IF verifyFunction(function, blocks, emitted', blockOf')
       THEN /\ error' = LowerError("Function verification failed", "")
            /\ phase' = "error"
            /\ UNCHANGED printed
       ELSE IF verifyModule(blocks, emitted', blockOf')
         THEN /\ error' = LowerError("Module verification failed", "")
              /\ phase' = "error"
              /\ UNCHANGED printed
         ELSE /\ printed' = ModuleText(functions, blocks, emitted', blockOf')
              /\ phase' = "lowered"
              /\ UNCHANGED error
  /\ UNCHANGED <<lexvars, tokvars, parsevars, parsing>>
  /\ UNCHANGED <<ir, visit, functionSignatures, variables, scopes, work, functions>>
  /\ UNCHANGED <<blocks, insertBlock, function, saved>>

(***************************************************************************)
(* translate(ir) on programs of at most MaxStmts statements                *)
(***************************************************************************)
MaxStmts == 4

\* the statements programs are made of
LowerStatements ==
  {VariableDeclaration("x", NumericLiteral(1)),
   VariableDeclaration("x", StringLiteral("a")),
   AssignmentExpression("x", StringLiteral("b")),
   VariableDeclaration("y",
     BinaryExpression(BinaryExpression(Identifier("x"), "+", NumericLiteral(1)),
                      "+", NumericLiteral(2))),
   CallStatement("f", <<NumericLiteral(1)>>, ""),
   CallStatement("f", <<StringLiteral("a"), NumericLiteral(1)>>, ""),
   CallStatement("f", <<NumericLiteral(1), StringLiteral("a")>>, ""),
   FunctionDeclaration("f", <<"p">>,
     <<CallStatement("f", <<Identifier("p")>>, ""),
       VariableDeclaration("x",
         BinaryExpression(Identifier("p"), "+", NumericLiteral(1)))>>),
   IfStatement(BinaryExpression(Identifier("x"), "==", NumericLiteral(1)),
     <<CallStatement("f", <<StringLiteral("a")>>, ""),
       VariableDeclaration("x", StringLiteral("a"))>>)}

\* new LLVMTranslator().translate(ir) has been called: the front end is not at
\* work, the maps are empty, the collection of the signatures begins
Handed ==
  /\ chunks = <<>>
  /\ ci = 0
  /\ i = 1
  /\ lex = LexerInit
  /\ out = <<>>
  /\ consumedIn = <<>>
  /\ curStart = 0
  /\ starts = <<>>
  /\ tpos = 0
  /\ tokens = <<>>
  /\ error = NoError
  /\ parsing = FALSE
  /\ index = 0
  /\ stack = <<>>
  /\ program = NoProgram
  /\ phase = "collect"
  /\ visit = ir
  /\ functionSignatures = [f \in CalleeNames |-> <<>>]
  /\ variables = [n \in VarNames |-> NoVar]
  /\ scopes = <<>>
  /\ work = <<>>
  /\ functions = RuntimeFunctions
  /\ emitted = <<>>
  /\ blocks = <<>>
  /\ blockOf = <<>>
  /\ insertBlock = 0
  /\ function = ""
  /\ saved = <<>>
  /\ printed = NoText

LowerInit ==
  /\ \E n \in 0..MaxStmts : ir \in [1..n -> LowerStatements]
  /\ Handed

LowerNext ==
  \/ Collect \/ CollectDone
  \/ TranslateStatement \/ TranslateIf \/ EndBody
  \/ TranslateFunctionDeclaration \/ EndFunction \/ TranslateDone

LowerSpec == LowerInit /\ [][LowerNext]_vars

(***************************************************************************)
(* Properties of the signature collection                                  *)
(***************************************************************************)
\* the Call statements of a statement list, nested bodies included, in the
\* order the collection visits them
RECURSIVE Calls(_)
Calls(stmts) ==
  IF stmts = <<>> THEN <<>>
  ELSE LET stmt == Head(stmts) IN
    CASE stmt.type = "CallStatement" -> <<stmt>> \o Calls(Tail(stmts))
      [] stmt.type = "FunctionDeclaration" -> Calls(stmt.body) \o Calls(Tail(stmts))
      [] stmt.type = "IfStatement" -> Calls(stmt.consequent) \o Calls(Tail(stmts))
      [] stmt.type = "WhileStatement" -> Calls(stmt.body) \o Calls(Tail(stmts))
      [] OTHER -> Calls(Tail(stmts))

\* the call sites visited so far
VisitedCalls == SubSeq(Calls(ir), 1, Len(Calls(ir)) - Len(Calls(visit)))

\* an argument whose type is String when no variable is recorded, as is the
\* case while the call sites are visited: a string literal, or a + with such
\* an operand
RECURSIVE SuppliesString(_)
SuppliesString(arg) ==
  \/ arg.type = "StringLiteral"
  \/ /\ arg.type = "BinaryExpression"
     /\ arg.operator = "+"
     /\ SuppliesString(arg.left) \/ SuppliesString(arg.right)

\* call site c passes a String at position k to function f
StringAt(c, f, k) ==
  /\ c.callee = f
  /\ k <= Len(c.arguments)
  /\ SuppliesString(c.arguments[k])

MaxArgs == 2

\* C16: whatever the order of the call sites, the parameter type inferred for
\* a position of a function is String if some call site visited so far passes
\* a String there and Int otherwise, so a later Int never undoes a String; a
\* position is recorded once some call site has that many arguments
C16_MergeOrderFree ==
  phase \in {"collect", "lower", "lowered"} =>
    LET visited == VisitedCalls IN
      \A f \in FuncNames : \A k \in 1..MaxArgs :
        /\ ParamType(functionSignatures[f], k) = "string" <=>
             \E j \in 1..Len(visited) : StringAt(visited[j], f, k)
        /\ k <= Len(functionSignatures[f]) <=>
             \E j \in 1..Len(visited) :
               visited[j].callee = f /\ k <= Len(visited[j].arguments)

\* a String call site has been merged and an Int call site for the same
\* position after it, and the position is String
C16_Witness ==
  /\ phase = "collect"
  /\ functionSignatures["f"] = <<"string", "string">>
  /\ LET visited == VisitedCalls IN
       /\ \E j, m \in 1..Len(visited) :
            /\ j < m
            /\ StringAt(visited[j], "f", 1)
            /\ visited[m].callee = "f"
            /\ ~StringAt(visited[m], "f", 1)
       /\ \E j, m \in 1..Len(visited) :
            /\ j < m
            /\ StringAt(visited[m], "f", 2)
            /\ visited[j].callee = "f"
            /\ ~StringAt(visited[j], "f", 2)

(***************************************************************************)
(* Properties of the emitted heap calls                                    *)
(***************************************************************************)
IsCall(k, fn) == emitted[k].op = "call" /\ emitted[k].fn = fn

\* the heap-allocate and the heap-free calls emitted
Mallocs == {k \in 1..Len(emitted) : IsCall(k, "malloc")}

Frees == {k \in 1..Len(emitted) : IsCall(k, "free")}

\* the operand the last store into slot among the first k instructions wrote
RECURSIVE StoredAt(_, _)
StoredAt(slot, k) ==
  IF k = 0 THEN getInt32(0)
  ELSE IF emitted[k].op = "store" /\ emitted[k].args[2] = Inst(slot)
    THEN emitted[k].args[1]
    ELSE StoredAt(slot, k - 1)

\* the buffer an operand points to when the instructions run in the order
\* emitted, named by the malloc that made it; 0 when it is no heap buffer
RECURSIVE Buffer(_)
Buffer(ref) ==
  IF ref.k # "inst" THEN 0
  ELSE IF IsCall(ref.n, "malloc") THEN ref.n
  ELSE IF emitted[ref.n].op = "load"
    THEN Buffer(StoredAt(emitted[ref.n].args[1].n, ref.n - 1))
    ELSE 0

Freed(f) == Buffer(emitted[f].args[1])

\* the program declares one String variable from a literal and then only
\* assigns string literals to it
ReassignedLiterals ==
  /\ Len(ir) >= 1
  /\ ir[1].type = "VariableDeclaration"
  /\ ir[1].value.type = "StringLiteral"
  /\ \A k \in 2..Len(ir) :
       /\ ir[k].type = "AssignmentExpression"
       /\ ir[k].left = ir[1].identifier
       /\ ir[k].right.type = "StringLiteral"

LastMalloc == CHOOSE m \in Mallocs : \A n \in Mallocs : n <= m

\* C17: once the declaration of such a variable and any number of its
\* reassignments are lowered, one buffer was allocated per statement, the
\* allocate calls are one more than the free calls, every free call frees a
\* buffer allocated before it, no buffer is freed twice, every buffer but the
\* last allocated is freed, and the last is the one the variable holds
C17_OneLiveBuffer ==
  (/\ ReassignedLiterals
   /\ phase \in {"lower", "lowered"}
   /\ Len(work) < Len(ir)) =>
    /\ Cardinality(Mallocs) = Len(ir) - Len(work)
    /\ Cardinality(Mallocs) = Cardinality(Frees) + 1
    /\ \A f \in Frees : Freed(f) \in Mallocs /\ Freed(f) < f
    /\ \A f, g \in Frees : f # g => Freed(f) # Freed(g)
    /\ \A m \in Mallocs : m # LastMalloc <=> \E f \in Frees : Freed(f) = m
    /\ Buffer(StoredAt(variables[ir[1].identifier].value, Len(emitted))) = LastMalloc

\* a declaration and three reassignments are lowered
C17_Witness ==
  /\ ReassignedLiterals
  /\ Len(ir) = 4
  /\ phase = "lowered"
  /\ Cardinality(Frees) = 3

\* the + expressions lowered under the variables of every state
PlusExprs ==
  {BinaryExpression(Identifier("x"), "+", NumericLiteral(1)),
   BinaryExpression(NumericLiteral(1), "+", Identifier("x")),
   BinaryExpression(Identifier("x"), "+", Identifier("x")),
   BinaryExpression(NumericLiteral(1), "+", NumericLiteral(2)),
   BinaryExpression(StringLiteral("a"), "+", NumericLiteral(1)),
   BinaryExpression(BinaryExpression(Identifier("x"), "+", NumericLiteral(1)),
                    "+", NumericLiteral(2)),
   BinaryExpression(NumericLiteral(1), "+",
                    BinaryExpression(NumericLiteral(2), "+", Identifier("x")))}

\* how many Int operands the + nodes with a String operand of an expression have
RECURSIVE IntOperands(_)
IntOperands(expr) ==
  IF expr.type # "BinaryExpression" THEN 0
  ELSE IntOperands(expr.left) + IntOperands(expr.right) +
       (IF expr.operator = "+" /\ getExpressionType(expr, variables) = "string"
          THEN (IF getExpressionType(expr.left, variables) = "int" THEN 1 ELSE 0) +
               (IF getExpressionType(expr.right, variables) = "int" THEN 1 ELSE 0)
          ELSE 0)

CodeCalls(code, fn) == {k \in 1..Len(code) : code[k].op = "call" /\ code[k].fn = fn}

\* the buffers the decimal text of an Int is printed into
Materialized(code) ==
  {m \in CodeCalls(code, "malloc") :
     \E k \in CodeCalls(code, "sprintf") : code[k].args[1] = Inst(m)}

\* the free calls of a buffer
FreesOf(code, m) == {f \in CodeCalls(code, "free") : code[f].args[1] = Inst(m)}

\* each Int operand of a concatenation gets a buffer of its own, freed once
\* and after the strcpy or strcat that reads it
MaterializedFreed(expr) ==
  LET r == translateExpression(expr, variables, 0) IN
    /\ Cardinality(Materialized(r.code)) = IntOperands(expr)
    /\ \A m \in Materialized(r.code) :
         /\ Cardinality(FreesOf(r.code, m)) = 1
         /\ \E k \in CodeCalls(r.code, "strcpy") \cup CodeCalls(r.code, "strcat") :
              /\ r.code[k].args[2] = Inst(m)
              /\ \A f \in FreesOf(r.code, m) : k < f

\* the result is the one buffer allocated for the expression that is not freed
OnlyResultEscapes(expr) ==
  LET r == translateExpression(expr, variables, 0) IN
    \A m \in CodeCalls(r.code, "malloc") :
      IF Inst(m) = r.value THEN FreesOf(r.code, m) = {}
                           ELSE Cardinality(FreesOf(r.code, m)) = 1

\* a + expression that lowers to a concatenation under the variables of
\* the state
Concatenates(expr) ==
  /\ translateExpression(expr, variables, 0).err = NoError
  /\ getExpressionType(expr, variables) = "string"

\* C18: in the instructions lowered for a + with a String operand, every Int
\* operand is printed into a new buffer that is freed once, after the copy or
\* concatenate call reading it, and the buffer of the final result is the only
\* one allocated for the expression that is not freed
C18_Concat ==
  \A expr \in PlusExprs :
    Concatenates(expr) => MaterializedFreed(expr) /\ OnlyResultEscapes(expr)

\* the part of C18 about the materialized operands
C18_Temporaries ==
  \A expr \in PlusExprs : Concatenates(expr) => MaterializedFreed(expr)

\* the part of C18 about the result, on a + whose operands are no concatenation
C18_SingleConcat ==
  \A expr \in PlusExprs :
    (/\ Concatenates(expr)
     /\ expr.left.type # "BinaryExpression"
     /\ expr.right.type # "BinaryExpression") => OnlyResultEscapes(expr)

(***************************************************************************)
(* Properties of the inferred types, on programs of at most MaxDecls       *)
(* declarations, which record every combination of types for x and y       *)
(***************************************************************************)
MaxDecls == 3

TypeStatements ==
  {VariableDeclaration("x", NumericLiteral(1)),
   VariableDeclaration("x", StringLiteral("a")),
   VariableDeclaration("y", NumericLiteral(1)),
   VariableDeclaration("y",
     BinaryExpression(StringLiteral("a"), "+", NumericLiteral(1)))}

TypeInit ==
  /\ \E n \in 0..MaxDecls : ir \in [1..n -> TypeStatements]
  /\ Handed

TypeNext == Collect \/ CollectDone \/ TranslateStatement \/ TranslateDone

TypeSpec == TypeInit /\ [][TypeNext]_vars

BinaryOperators == {"+", "-", "*", "/", "%", "==", "!=", "<", "<=", ">", ">="}

\* operands: names, literals, and binary expressions of either type
TypedOperands ==
  {Identifier("x"), Identifier("y"), NumericLiteral(1), StringLiteral("a"),
   BinaryExpression(Identifier("x"), "+", NumericLiteral(1)),
   BinaryExpression(StringLiteral("a"), "==", StringLiteral("a")),
   BinaryExpression(StringLiteral("a"), "+", Identifier("y"))}

\* C19: under the variables of every state, a BinaryExpression is String
\* exactly when its operator is + and the type of at least one operand is
\* String; with any other operator, and with + on two Int operands, it is Int
C19_BinaryType ==
  LET operandType == [o \in TypedOperands |-> getExpressionType(o, variables)] IN
    \A op \in BinaryOperators : \A l, r \in TypedOperands :
      LET type == getExpressionType(BinaryExpression(l, op, r), variables) IN
        /\ type \in {"int", "string"}
        /\ type = "string" <=>
             /\ op = "+"
             /\ operandType[l] = "string" \/ operandType[r] = "string"

\* x is recorded as a String and y as an Int: x + y is a String, y + y and
\* x == x are Int
C19_Witness ==
  /\ variables["x"] # NoVar
  /\ variables["x"].type = "string"
  /\ variables["y"] # NoVar
  /\ variables["y"].type = "int"
  /\ getExpressionType(BinaryExpression(Identifier("x"), "+", Identifier("y")),
                       variables) = "string"
  /\ getExpressionType(BinaryExpression(Identifier("y"), "+", Identifier("y")),
                       variables) = "int"
  /\ getExpressionType(BinaryExpression(Identifier("x"), "==", Identifier("x")),
                       variables) = "int"

\* the types recorded stay as they are over a step
TypesKept ==
  \A n \in VarNames :
    variables[n] # NoVar =>
      variables'[n] # NoVar /\ variables'[n].type = variables[n].type

\* C20: while the lowering stays in one function body or in the top-level
\* body, the type recorded for a declared variable does not change, whatever
\* statement is lowered
C20_TypeFixed ==
  [][(phase = "lower" /\ Len(scopes') = Len(scopes)) => TypesKept]_vars

\* the part of C20 about assignments: lowering an assignment changes no type
C20_AssignmentsKeepType ==
  [][(/\ phase = "lower"
      /\ work # <<>>
      /\ Head(work).type = "AssignmentExpression") => TypesKept]_vars

\* the part of C20 about scopes: when the body of a function has been lowered
\* the variables are those recorded before the function was entered
C20_ScopeRestored ==
  [][(phase = "lower" /\ Len(scopes') < Len(scopes)) =>
       variables' = scopes[Len(scopes)]]_vars

(***************************************************************************)
(* Properties of the numbers the Preprocessor hands to the Tokenizer       *)
(***************************************************************************)
\* an optional leading - followed by one or more digits
NumberText(v) ==
  \/ Len(v) >= 1 /\ AllDigits(v)
  \/ Len(v) >= 2 /\ v[1] = "-" /\ AllDigits(Tail(v))

\* C30: whatever the text and its chunks, every number PreToken yielded is an
\* optional - followed by digits, the number being built is such a text or a
\* lone - with a digit to come, and the Tokenizer never throws Invalid number
C30_NumbersValid ==
  /\ \A k \in 1..Len(out) : out[k].type = "number" => NumberText(out[k].value)
  /\ lex.cur.type = "number" =>
       \/ NumberText(lex.cur.value)
       \/ /\ lex.cur.value = <<"-">>
          /\ i <= Len(current)
          /\ isDigit(current[i])
  /\ ~(error.name = "TokenizerError" /\ error.message = "Invalid number")

\* a negative number and a number that follows it, across chunks, went
\* through the Tokenizer
C30_Witness ==
  /\ phase = "done"
  /\ Len(chunks) = 2
  /\ \E k \in 1..Len(out) :
       /\ out[k].type = "number"
       /\ out[k].value = <<"-", "1">>
  /\ \E k \in 1..Len(tokens) : tokens[k].type = "number" /\ tokens[k].value = 0 - 1

(***************************************************************************)
(* Properties of statements that follow one another                        *)
(***************************************************************************)
CallPiece == <<"c","a","l","l"," ","f"," ","1"," ">>

FuncPiece == <<"f","u","n","c"," ","f"," ","a"," ">>

AssignmentPieces == << <<"a"," ","="," ","-">>, <<"1"," ","=","="," ","1"," ">> >>

\* the program is call f 1, or the header func f a, followed by a = - 1 == 1
Juxtaposed ==
  /\ Len(chunks) = 3
  /\ chunks[1] \in {CallPiece, FuncPiece}
  /\ SubSeq(chunks, 2, 3) = AssignmentPieces

\* C29: a call without into, or a func header, followed by an assignment
\* keeps its own arguments or parameters and the assignment is parsed as the
\* next statement: the = is never met where a statement should begin, the call
\* has its one argument and the assignment follows it, and the function, its
\* body being the assignment, fails only for its missing end
C29_Boundaries ==
  Juxtaposed =>
    /\ error # ASTError("Unexpected token", "operator")
    /\ (phase = "done" /\ chunks[1] = CallPiece) =>
         /\ Len(program.statements) = 2
         /\ program.statements[1].type = "CallStatement"
         /\ Len(program.statements[1].parts[2]) = 1
         /\ program.statements[2].type = "AssignmentExpression"
    /\ (phase = "error" /\ chunks[1] = FuncPiece) => error = ASTError("Expected", "end")
    /\ (phase \in {"done", "error"} /\ chunks[1] = CallPiece) => phase = "done"

\* the call alone has its one argument
C29_CallAlone ==
  (chunks = <<CallPiece>> /\ phase = "done") =>
    /\ Len(program.statements) = 1
    /\ program.statements[1].type = "CallStatement"
    /\ Len(program.statements[1].parts[2]) = 1

(***************************************************************************)
(* translate(ir) on programs of calls and declarations                     *)
(***************************************************************************)
MaxCalls == 3

\* the statements these programs are made of
CallStatements ==
  {VariableDeclaration("x", StringLiteral("a")),
   CallStatement("f", <<Identifier("x")>>, ""),
   CallStatement("f", <<NumericLiteral(1), StringLiteral("a")>>, ""),
   CallStatement("g", <<NumericLiteral(1)>>, ""),
   CallStatement("exit", <<NumericLiteral(1)>>, ""),
   FunctionDeclaration("f", <<"p">>, <<ReturnStatement("p")>>),
   FunctionDeclaration("g", <<"p", "x">>,
     <<FunctionDeclaration("f", <<"p">>, <<>>),
       CallStatement("f", <<StringLiteral("a")>>, "")>>),
   WhileStatement(BinaryExpression(NumericLiteral(1), "==", NumericLiteral(1)),
     <<CallStatement("g", <<StringLiteral("a"), NumericLiteral(1)>>, "")>>)}

CallInit ==
  /\ \E n \in 0..MaxCalls : ir \in [1..n -> CallStatements]
  /\ Handed

CallSpec == CallInit /\ [][LowerNext]_vars

\* the functions a func statement lowered so far has created
Declared == {blocks[b] : b \in 1..Len(blocks)} \ {"main"}

\* a step that lowers a call statement and finds its callee
CalleeFound ==
  /\ TranslateStatement
  /\ Head(work).type = "CallStatement"
  /\ error' # LowerError("Undefined function", Head(work).callee)

\* C21: a call statement finds its callee only if a func statement of that
\* name was lowered before it; every other call fails with 'Undefined
\* function'
C21_CalleeDeclared == [][CalleeFound => Head(work).callee \in Declared]_vars

\* C21, the part that holds: a call of a name that neither a func statement
\* lowered before nor the runtime declares fails with 'Undefined function'
C21_UndefinedFails ==
  [][(/\ TranslateStatement
      /\ Head(work).type = "CallStatement"
      /\ Head(work).callee \notin Declared \cup RuntimeFunctions \cup {"main"})
     => /\ error' = LowerError("Undefined function", Head(work).callee)
        /\ phase' = "error"
        /\ emitted' = emitted]_vars

\* parameter k of the func statement stmt is the one its name resolves to
Resolves(stmt, k) == \A m \in (k + 1)..Len(stmt.params) : stmt.params[m] # stmt.params[k]

\* some call site of the program, wherever it stands, passes a String at
\* position k to function f
SomeCallSite(f, k) ==
  \E j \in 1..Len(Calls(ir)) : StringAt(Calls(ir)[j], f, k)

\* C24: the signatures are collected before anything is lowered and never
\* change once lowering has begun; a parameter of a function being lowered is
\* a String exactly if some call site of the whole program, one that comes
\* later or is nested in a body included, passes a String there, and an Int
\* otherwise
C24_PrePass ==
  /\ [](phase = "collect" => emitted = <<>> /\ blocks = <<>> /\ work = <<>>)
  /\ [][phase # "collect" => functionSignatures' = functionSignatures]_vars
  /\ [][TranslateFunctionDeclaration =>
          \A k \in 1..Len(Head(work).params) :
            Resolves(Head(work), k) =>
              variables'[Head(work).params[k]].type =
                IF SomeCallSite(Head(work).name, k) THEN "string" ELSE "int"]_vars

\* g is being lowered, its first parameter is a String, and the one call
\* site that passes a String there stands in the body of the loop that
\* follows the declaration, still to be lowered
C24_Witness ==
  /\ phase = "lower"
  /\ function = "g"
  /\ variables["p"].type = "string"
  /\ variables["x"].type = "int"
  /\ Len(ir) = 2
  /\ ir[2].type = "WhileStatement"
  /\ Head(work).type = "FunctionDeclaration"

\* every call site of function f in the program has an identifier at
\* position k
IdentifierEverywhere(f, k) ==
  \A j \in 1..Len(Calls(ir)) :
    Calls(ir)[j].callee = f =>
      /\ k <= Len(Calls(ir)[j].arguments)
      /\ Calls(ir)[j].arguments[k].type = "Identifier"

\* argument k of the call statement stmt names a variable that is a String
\* where the call is lowered
PassesStringVariable(stmt, k) ==
  /\ stmt.arguments[k].type = "Identifier"
  /\ variables[stmt.arguments[k].name].type = "string"

\* C28: when a call is lowered whose argument at some position names a
\* String variable, and every call site of the callee has an identifier at
\* that position, the parameter type inferred for the position is String, the
\* type of the value that is passed
C28_StringVariables ==
  [][CalleeFound =>
       \A k \in 1..Len(Head(work).arguments) :
         (PassesStringVariable(Head(work), k)
            /\ IdentifierEverywhere(Head(work).callee, k))
         => ParamType(functionSignatures[Head(work).callee], k) = "string"]_vars

(***************************************************************************)
(* translate(ir) on programs of declarations, assignments and frees of     *)
(* String variables                                                        *)
(***************************************************************************)
MaxFrees == 3

\* the statements these programs are made of
FreeStatements ==
  {VariableDeclaration("x", StringLiteral("a")),
   VariableDeclaration("y", StringLiteral("b")),
   AssignmentExpression("x", StringLiteral("b")),
   AssignmentExpression("x", Identifier("y")),
   AssignmentExpression("x", Identifier("x")),
   FreeStatement("x")}

FreeInit ==
  /\ \E n \in 0..MaxFrees : ir \in [1..n -> FreeStatements]
  /\ Handed

FreeSpec == FreeInit /\ [][TypeNext]_vars

\* the buffer variable n holds once the instructions emitted have run
Held(n) == Buffer(StoredAt(variables[n].value, Len(emitted)))

\* the free statements of the program
FreeAt == {k \in 1..Len(ir) : ir[k].type = "FreeStatement"}

\* C26: in the instructions emitted for declarations, assignments and at
\* most one free of String variables no buffer is freed by two free calls
C26_NoDoubleFree ==
  (phase \in {"lower", "lowered"} /\ Cardinality(FreeAt) <= 1) =>
    \A f, g \in Frees : f # g => Freed(f) # Freed(g)

\* C26, without free statements: no String variable holds a buffer that a
\* free call has freed
C26_NoDangling ==
  (/\ phase \in {"lower", "lowered"}
   /\ FreeAt = {}) =>
    \A n \in VarNames :
      variables[n].type = "string" => \A f \in Frees : Freed(f) # Held(n)

(***************************************************************************)
(* translate(ir) on programs with returns, function bodies and references  *)
(* to names that are not declared                                          *)
(***************************************************************************)
MaxReturns == 3

\* the statements these programs are made of
ReturnStatements ==
  {VariableDeclaration("x", NumericLiteral(1)),
   VariableDeclaration("x", Identifier("y")),
   AssignmentExpression("y", NumericLiteral(1)),
   FreeStatement("y"),
   ReturnStatement("x"),
   CallStatement("f", <<NumericLiteral(1)>>, "y"),
   FunctionDeclaration("f", <<"p">>, <<ReturnStatement("p")>>),
   FunctionDeclaration("f", <<"p">>,
     <<ReturnStatement("p"), VariableDeclaration("y", Identifier("p"))>>),
   FunctionDeclaration("g", <<"p">>,
     <<WhileStatement(BinaryExpression(Identifier("p"), "==", NumericLiteral(1)),
         <<VariableDeclaration("y", Identifier("p"))>>)>>),
   FunctionDeclaration("g", <<"p">>,
     <<IfStatement(BinaryExpression(Identifier("p"), "==", NumericLiteral(1)),
         <<ReturnStatement("p")>>)>>),
   FunctionDeclaration("g", <<"p">>,
     <<FunctionDeclaration("f", <<"x">>,
         <<VariableDeclaration("y", Identifier("x"))>>),
       ReturnStatement("p"),
       FreeStatement("p")>>)}

ReturnInit ==
  /\ \E n \in 0..MaxReturns : ir \in [1..n -> ReturnStatements]
  /\ Handed

ReturnSpec == ReturnInit /\ [][LowerNext]_vars

\* the terminators of block b among the instructions created
TerminatorsOf(b) ==
  {k \in 1..Len(emitted) : blockOf[k] = b /\ IsTerminator(emitted[k])}

\* nothing was inserted into block b after a terminator
EndsAtTerminator(b) ==
  \A k \in TerminatorsOf(b) : \A m \in (k + 1)..Len(emitted) : blockOf[m] # b

\* C27: no block of any function receives an instruction after a terminator,
\* so no block holds two terminators, and in the module that is returned
\* every block ends with its one terminator
C27_Terminators ==
  /\ \A b \in 1..Len(blocks) : EndsAtTerminator(b)
  /\ phase = "lowered" =>
       \A b \in 1..Len(blocks) : Cardinality(TerminatorsOf(b)) = 1

\* C27, the part that holds: in a module that is returned every block ends
\* with exactly one terminator
C27_Returned ==
  printed # NoText =>
    \A b \in 1..Len(blocks) :
      Cardinality(TerminatorsOf(b)) = 1 /\ EndsAtTerminator(b)

\* the errors translate raises
LoweringErrors ==
  {LowerError("Undefined variable", "y"), LowerError("Undefined variable", "x"),
   LowerError("Undefined function", "f"),
   LowerError("Undefined result variable", "y"),
   LowerError("Function verification failed for", "f"),
   LowerError("Function verification failed for", "g"),
   LowerError("Function verification failed", "")}

\* C22: translate returns text only when every statement is lowered without
\* an error and every block of the module is verified, the text is that of
\* the whole module, and once an error is raised, for a name that is not
\* declared or a verification that failed, no text is returned
C22_AllOrNothing ==
  /\ printed # NoText =>
       /\ phase = "lowered"
       /\ error = NoError
       /\ work = <<>>
       /\ saved = <<>>
       /\ printed = ModuleText(functions, blocks, emitted, blockOf)
       /\ \A b \in 1..Len(blocks) :
            Cardinality(TerminatorsOf(b)) = 1 /\ EndsAtTerminator(b)
  /\ phase = "lowered" => printed # NoText
  /\ error # NoError =>
       phase = "error" /\ printed = NoText /\ error \in LoweringErrors
  /\ phase \in {"collect", "lower"} => printed = NoText

\* the verification of main has failed after instructions were created, and
\* nothing is returned
C22_Witness ==
  /\ phase = "error"
  /\ error = LowerError("Function verification failed", "")
  /\ Len(emitted) > 2
  /\ printed = NoText

\* the end of the body can be reached: no statement of the body itself is a
\* return
FallsThrough(body) == \A k \in 1..Len(body) : body[k].type # "ReturnStatement"

\* the instructions that return the constant 0
ZeroReturns == {k \in 1..Len(emitted) : emitted[k] = CreateRet(getInt32(0))}

\* C25: when the lowering of a function is finished, ret 0 was added after
\* its body exactly if the end of the body can be reached without a return;
\* after a body that ends in a return nothing was added
C25_ImplicitReturn ==
  [][(EndFunction /\ phase' = "lower") =>
       IF FallsThrough(saved[Len(saved)].stmt.body)
         THEN emitted' = Append(emitted, CreateRet(getInt32(0)))
         ELSE emitted' = emitted]_vars

\* a function whose body is a loop and a function whose body is a return
\* have been lowered: the first ends with the one ret 0 there is, the second
\* with the ret of its value
C25_Witness ==
  /\ phase = "lower"
  /\ work = <<>>
  /\ Len(ir) = 2
  /\ ir[1].type = "FunctionDeclaration"
  /\ ir[1].body[1].type = "WhileStatement"
  /\ ir[2] = FunctionDeclaration("f", <<"p">>, <<ReturnStatement("p")>>)
  /\ Cardinality(ZeroReturns) = 1
  /\ emitted[Len(emitted)] = CreateRet(Inst(Len(emitted) - 1))

\* the names the statements of a body declare, the bodies of its ifs and
\* loops included, those of the functions declared in it not
RECURSIVE BodyNames(_)
BodyNames(stmts) ==
  IF stmts = <<>> THEN {}
  ELSE LET stmt == Head(stmts) IN
    CASE stmt.type = "VariableDeclaration" ->
           {stmt.identifier} \cup BodyNames(Tail(stmts))
      [] stmt.type = "IfStatement" ->
           BodyNames(stmt.consequent) \cup BodyNames(Tail(stmts))
      [] stmt.type = "WhileStatement" ->
           BodyNames(stmt.body) \cup BodyNames(Tail(stmts))
      [] OTHER -> BodyNames(Tail(stmts))

\* the statements of the program lowered so far, no declaration being at
\* work
LoweredStatements == SubSeq(ir, 1, Len(ir) - Len(work))

\* variable n has the storage that the last make of n among the statements
\* of main lowered so far has created
StorageInMain(n) ==
  /\ emitted[variables[n].value] = CreateAlloca(n)
  /\ blocks[blockOf[variables[n].value]] = "main"
  /\ \A m \in (variables[n].value + 1)..Len(emitted) :
       ~(emitted[m] = CreateAlloca(n) /\ blocks[blockOf[m]] = "main")

\* outside every function declaration the context is that of main, as the
\* statements of main alone have made it
CallerContext ==
  /\ function = "main"
  /\ insertBlock = 1
  /\ scopes = <<>>
  /\ \A n \in VarNames :
       IF n \in BodyNames(LoweredStatements)
         THEN variables[n].type = "int" /\ StorageInMain(n)
         ELSE variables[n] = NoVar

\* inside a function declaration the context is that of the function: its
\* blocks, and no name but its parameters and those its body declares, each
\* with storage in the function
BodyContext ==
  /\ function = saved[Len(saved)].stmt.name
  /\ blocks[insertBlock] = function
  /\ Len(scopes) = Len(saved)
  /\ \A n \in VarNames :
       variables[n] # NoVar =>
         /\ \/ \E k \in 1..Len(saved[Len(saved)].stmt.params) :
                 saved[Len(saved)].stmt.params[k] = n
            \/ n \in BodyNames(saved[Len(saved)].stmt.body)
         /\ emitted[variables[n].value] = CreateAlloca(n)
         /\ blocks[blockOf[variables[n].value]] = function

\* C23: while statements are lowered, the variables, the current function and
\* the insertion block outside every function declaration are what the
\* statements of main made them, whatever the declarations lowered in
\* between have declared; inside a declaration only the parameters and the
\* names of the body resolve; and the end of a declaration puts back the
\* variables, the function and the block recorded when it began
C23_ContextRestored ==
  /\ [](phase = "lower" => IF saved = <<>> THEN CallerContext ELSE BodyContext)
  /\ [][(EndFunction /\ phase' = "lower") =>
          /\ variables' = scopes[Len(scopes)]
          /\ function' = saved[Len(saved)].function
          /\ insertBlock' = saved[Len(saved)].insertPoint]_vars
  /\ [][TranslateFunctionDeclaration =>
          /\ scopes' = Append(scopes, variables)
          /\ saved'[Len(saved')].function = function
          /\ saved'[Len(saved')].insertPoint = insertBlock]_vars

\* x is declared, then a function with a parameter, a nested function with
\* a parameter x and a variable y; after the declaration x is the x of main,
\* neither p nor y resolves, the function is main and the block its entry
C23_Witness ==
  /\ phase = "lower"
  /\ work = <<>>
  /\ saved = <<>>
  /\ Len(ir) = 2
  /\ ir[1] = VariableDeclaration("x", NumericLiteral(1))
  /\ ir[2].type = "FunctionDeclaration"
  /\ ir[2].body[1].type = "FunctionDeclaration"
  /\ variables["x"] = [type |-> "int", value |-> 1]
  /\ variables["p"] = NoVar
  /\ variables["y"] = NoVar
  /\ function = "main"
  /\ insertBlock = 1
  /\ Len(blocks) = 3
====
